---- MODULE Spec2Model ----
(***************************************************************************)
(* State-machine model of the Plinko game core: GameState, Ball, Peg,      *)
(* CommandProcessor (src/src/core), the EventCoordinator callbacks and the *)
(* game loop (src/src/app).                                                *)
(*                                                                         *)
(* Numbers.  The program computes with Python floats.  The model keeps     *)
(* every quantity on a fixed-point grid chosen so that the Euler step of   *)
(* Ball.update is exact for frame times that are multiples of 1/60 s:      *)
(*   time      1 unit = 1/TU s        (TU = 60)                            *)
(*   velocity  1 unit = 1/VU px/s     (VU = 3)                             *)
(*   position  1 unit = 1/PU px       (PU = TU * VU = 180)                 *)
(*   rotation  1 unit = 1/RU degree   (RU = 120)                           *)
(*   clock     1 unit = 1 s           (time.time(), read by ScreenMessage) *)
(* Quotients that are not on the grid (the collision normal, damping, the  *)
(* peg abscissae) are rounded to the nearest grid point.                   *)
(***************************************************************************)
EXTENDS Integers, Sequences, FiniteSets, TLC

\* ------------------------------------------------------------------ grid
\* one time unit is one frame at AppConfig.TARGET_FPS
TU == 60
\* gravity / TU px/s is a whole number of velocity units
VU == TU \div 20
PU == TU * VU
\* rotation_speed = vx * 1.5: one position unit of travel turns one rotation unit
RU == 2 * TU

Abs(a) == IF a < 0 THEN -a ELSE a

\* a / b rounded to the nearest integer (b > 0), halves away from zero
RoundDiv(a, b) ==
    IF a >= 0 THEN (2 * a + b) \div (2 * b)
              ELSE -((2 * (-a) + b) \div (2 * b))

RECURSIVE SqrtIter(_, _, _)
SqrtIter(n, lo, hi) ==
    IF lo >= hi THEN lo
    ELSE LET mid == (lo + hi + 1) \div 2
         IN  IF mid * mid <= n THEN SqrtIter(n, mid, hi)
                               ELSE SqrtIter(n, lo, mid - 1)

\* floor of the square root of n, 0 <= n < 2^30
ISqrt(n) == SqrtIter(n, 0, 32767)

Min(a, b) == IF a < b THEN a ELSE b
Max(a, b) == IF a > b THEN a ELSE b

\* ---------------------------------------------------------------- config
\* GameConfig defaults
width == 600
height == 800
peg_radius == 6
ball_radius == 20
gravity == 2000
damping_pct == 55
rows == 8
top_pegs == 3
bottom_margin == 10
top_margin == 200
slot_count == 9
slot_scores == <<100, 50, 25, 10, 5, 10, 25, 50, 100>>

\* GameConfig(): the board fields read by the peg builder, the scoring
\* routine and __post_init__
DefaultConfig ==
    [width |-> width, height |-> height, peg_radius |-> peg_radius,
     rows |-> rows, top_pegs |-> top_pegs, bottom_margin |-> bottom_margin,
     top_margin |-> top_margin, slot_count |-> slot_count,
     slot_scores |-> slot_scores]

\* AppConfig.COMMAND_COSTS['msg']
MsgCost == 50
\* ScreenMessage duration set by _execute_msg_command, seconds
MsgDuration == 6
\* longest accepted msg text
MsgMaxLen == 50
\* Peg.hit_timer after a collision: 0.5 s, in time units
GlowDuration == TU \div 2
\* spawn_ball: y = top_margin - 40, vx = uniform(-40, 40)
SpawnDrop == 40
SpawnVxMax == 40

\* ------------------------------------------------------------------ pegs
max_pegs == top_pegs + (rows - 1)

\* row and column of the k-th peg (k = 1 ..), rows stored one after another
RECURSIVE PegRowOf(_, _)
PegRowOf(k, r) ==
    IF k <= top_pegs + r THEN <<r, k - 1>> ELSE PegRowOf(k - (top_pegs + r), r + 1)

PegCount == (rows * (2 * top_pegs + rows - 1)) \div 2

\* GameState._create_pegs: x = (start_offset_pegs + i + 1) * peg_spacing,
\* y = top_margin + row * row_height, hit_timer = 0
CreatePeg(k) ==
    LET rc == PegRowOf(k, 0)
        row == rc[1]
        i == rc[2]
        pegs_in_row == top_pegs + row
    IN  [x |-> RoundDiv((max_pegs - pegs_in_row + 2 * i + 2) * width * PU,
                        2 * (max_pegs + 1)),
         y |-> top_margin * PU
                 + RoundDiv(row * (height - bottom_margin - top_margin) * PU, rows),
         radius |-> peg_radius,
         hit_timer |-> 0]

CreatePegs == [k \in 1..PegCount |-> CreatePeg(k)]

\* ----------------------------------------------------------------- balls
\* Ball.update: explicit Euler step; dt in time units
BallUpdate(b, dt) ==
    IF ~b.active THEN b
    ELSE LET vy1 == b.vy + (gravity * VU * dt) \div TU
         IN  [b EXCEPT !.vy = vy1,
                       !.x = b.x + b.vx * dt,
                       !.y = b.y + vy1 * dt,
                       !.rotation = (b.rotation + b.vx * dt) % (360 * RU)]

\* the peg loop pushing the ball out by half the overlap
CollidePeg_HalfPush(b, peg) ==
    LET dx == b.x - peg.x
        dy == b.y - peg.y
        reach == (b.radius + peg.radius) * PU
        near == Abs(dx) < reach /\ Abs(dy) < reach
        dist == IF near THEN ISqrt(dx * dx + dy * dy) ELSE reach
        overlap == reach - dist
    IN  IF overlap > 0
        THEN LET px == IF dist # 0 THEN RoundDiv(dx * overlap, 2 * dist) ELSE 0
                 py == IF dist # 0 THEN RoundDiv(dy * overlap, 2 * dist) ELSE 0
                 dot == IF dist # 0 THEN RoundDiv(b.vx * dx + b.vy * dy, dist) ELSE 0
                 rx == IF dist # 0 THEN RoundDiv(2 * dot * dx, dist) ELSE 0
                 ry == IF dist # 0 THEN RoundDiv(2 * dot * dy, dist) ELSE 0
             IN  [ball |-> [b EXCEPT !.x = b.x + px,
                                     !.y = b.y + py,
                                     !.vx = RoundDiv((b.vx - rx) * damping_pct, 100),
                                     !.vy = RoundDiv((b.vy - ry) * damping_pct, 100)],
                  peg |-> [peg EXCEPT !.hit_timer = GlowDuration]]
        ELSE [ball |-> b, peg |-> peg]

\* the peg loop taking the upward unit normal when the centres coincide
CollidePeg_UnitNormal(b, peg) ==
    LET dx == b.x - peg.x
        dy == b.y - peg.y
        reach == (b.radius + peg.radius) * PU
        near == Abs(dx) < reach /\ Abs(dy) < reach
        dist == IF near THEN ISqrt(dx * dx + dy * dy) ELSE reach
        overlap == reach - dist
    IN  IF overlap > 0
        THEN LET px == IF dist # 0 THEN RoundDiv(dx * overlap, dist) ELSE 0
                 py == IF dist # 0 THEN RoundDiv(dy * overlap, dist) ELSE -overlap
                 dot == IF dist # 0 THEN RoundDiv(b.vx * dx + b.vy * dy, dist) ELSE 0
                 rx == IF dist # 0 THEN RoundDiv(2 * dot * dx, dist) ELSE 0
                 ry == IF dist # 0 THEN RoundDiv(2 * dot * dy, dist) ELSE 2 * b.vy
             IN  [ball |-> [b EXCEPT !.x = b.x + px,
                                     !.y = b.y + py,
                                     !.vx = RoundDiv((b.vx - rx) * damping_pct, 100),
                                     !.vy = RoundDiv((b.vy - ry) * damping_pct, 100)],
                  peg |-> [peg EXCEPT !.hit_timer = GlowDuration]]
        ELSE [ball |-> b, peg |-> peg]

\* one iteration of the peg loop of GameState._handle_collisions:
\* the ball against peg k; returns the ball and the peg after it
CollidePeg(b, peg) ==
    LET dx == b.x - peg.x
        dy == b.y - peg.y
        reach == (b.radius + peg.radius) * PU
        near == Abs(dx) < reach /\ Abs(dy) < reach
        dist == IF near THEN ISqrt(dx * dx + dy * dy) ELSE reach
        overlap == reach - dist
    IN  IF overlap > 0
        THEN LET px == IF dist # 0 THEN RoundDiv(dx * overlap, dist) ELSE 0
                 py == IF dist # 0 THEN RoundDiv(dy * overlap, dist) ELSE 0
                 dot == IF dist # 0 THEN RoundDiv(b.vx * dx + b.vy * dy, dist) ELSE 0
                 rx == IF dist # 0 THEN RoundDiv(2 * dot * dx, dist) ELSE 0
                 ry == IF dist # 0 THEN RoundDiv(2 * dot * dy, dist) ELSE 0
             IN  [ball |-> [b EXCEPT !.x = b.x + px,
                                     !.y = b.y + py,
                                     !.vx = RoundDiv((b.vx - rx) * damping_pct, 100),
                                     !.vy = RoundDiv((b.vy - ry) * damping_pct, 100)],
                  peg |-> [peg EXCEPT !.hit_timer = GlowDuration]]
        ELSE [ball |-> b, peg |-> peg]

\* GameState._handle_collisions: every peg, in list order, from peg k on
RECURSIVE HandleCollisions(_, _, _)
HandleCollisions(b, ps, k) ==
    IF k > Len(ps) THEN [ball |-> b, pegs |-> ps]
    ELSE LET r == CollidePeg(b, ps[k])
         IN  HandleCollisions(r.ball, [ps EXCEPT ![k] = r.peg], k + 1)

\* ---------------------------------------------------------------- ledger
\* user_scores is a dict in insertion order: a sequence of UserScore records
Usernames(us) == {us[i].username : i \in 1..Len(us)}

IndexOf(us, u) == CHOOSE i \in 1..Len(us) : us[i].username = u

ScoreOf(us, u) == us[IndexOf(us, u)].score

AddScore(us, u, d) == [us EXCEPT ![IndexOf(us, u)].score = @ + d]

\* --------------------------------------------------------------- scoring
\* the slot index without the shift by one slot width
SlotIndex_Unshifted(x) ==
    LET raw == (x * (max_pegs + 1)) \div (width * PU)
    IN  Max(0, Min(raw, (max_pegs - 1) - 1))

\* slot index of GameState._handle_ball_scored for a ball at abscissa x:
\* int((x - slot_width) // slot_width), clamped to 0 .. slot_count - 1
SlotIndex(x) ==
    LET raw == ((x * (max_pegs + 1)) \div (width * PU)) - 1
    IN  Max(0, Min(raw, (max_pegs - 1) - 1))

SlotPoints(x) ==
    IF SlotIndex(x) >= Len(slot_scores)
    THEN slot_scores[Len(slot_scores)]
    ELSE slot_scores[SlotIndex(x) + 1]

\* the points going to the first user of the ledger
HandleBallScored_CreditFirst(b, us, snd) ==
    [user_scores |-> IF b.username \in Usernames(us)
                     THEN [us EXCEPT ![1].score = @ + SlotPoints(b.x)]
                     ELSE us,
     sound_events |-> Append(snd, <<"slot_hit", b.x, b.y>>)]

\* GameState._handle_ball_scored: credit the owner, queue the notification
HandleBallScored(b, us, snd) ==
    [user_scores |-> IF b.username \in Usernames(us)
                     THEN AddScore(us, b.username, SlotPoints(b.x))
                     ELSE us,
     sound_events |-> Append(snd, <<"slot_hit", b.x, b.y>>)]

\* the bottom boundary tested by GameState.update
BottomY == (height - ball_radius - bottom_margin) * PU

AtBottom(b) == b.y >= BottomY

\* the ball loop with a scored ball deactivated but kept in the list
RECURSIVE UpdateLoop_SoftFlag(_, _, _, _)
UpdateLoop_SoftFlag(bs, i, dt, st) ==
    IF i > Len(bs) THEN st
    ELSE IF ~bs[i].active THEN UpdateLoop_SoftFlag(bs, i + 1, dt, st)
    ELSE LET c == HandleCollisions(BallUpdate(bs[i], dt), st.pegs, 1)
         IN  IF AtBottom(c.ball)
             THEN LET s == HandleBallScored(c.ball, st.user_scores, st.sound_events)
                  IN  UpdateLoop_SoftFlag(bs, i + 1, dt,
                          [st EXCEPT !.pegs = c.pegs,
                                     !.user_scores = s.user_scores,
                                     !.sound_events = s.sound_events,
                                     !.scored = Append(@, c.ball.id),
                                     !.active_balls =
                                         Append(@, [c.ball EXCEPT !.active = FALSE])])
             ELSE UpdateLoop_SoftFlag(bs, i + 1, dt,
                          [st EXCEPT !.pegs = c.pegs,
                                     !.active_balls = Append(@, c.ball)])

\* the ball loop of GameState.update from list position i on;
\* st = [active_balls, pegs, user_scores, sound_events, scored]; scored lists
\* the identities of the balls passed to _handle_ball_scored, in call order
RECURSIVE UpdateLoop(_, _, _, _)
UpdateLoop(bs, i, dt, st) ==
    IF i > Len(bs) THEN st
    ELSE IF ~bs[i].active THEN UpdateLoop(bs, i + 1, dt, st)
    ELSE LET c == HandleCollisions(BallUpdate(bs[i], dt), st.pegs, 1)
         IN  IF AtBottom(c.ball)
             THEN LET s == HandleBallScored(c.ball, st.user_scores, st.sound_events)
                  IN  UpdateLoop(bs, i + 1, dt,
                                 [st EXCEPT !.pegs = c.pegs,
                                            !.user_scores = s.user_scores,
                                            !.sound_events = s.sound_events,
                                            !.scored = Append(@, c.ball.id)])
             ELSE UpdateLoop(bs, i + 1, dt,
                             [st EXCEPT !.pegs = c.pegs,
                                        !.active_balls = Append(@, c.ball)])

\* the decay without the floor at zero
DecayPeg_NoFloor(peg, dt) ==
    IF peg.hit_timer > 0
    THEN [peg EXCEPT !.hit_timer = peg.hit_timer - dt]
    ELSE peg

\* the peg loop closing GameState.update: hit_timer = max(0, hit_timer - dt)
DecayPeg(peg, dt) ==
    IF peg.hit_timer > 0
    THEN [peg EXCEPT !.hit_timer = Max(0, peg.hit_timer - dt)]
    ELSE peg

\* CommandProcessor.update: keep the messages younger than their duration
PruneMessages_Inclusive(msgs, t) ==
    SelectSeq(msgs, LAMBDA m : t - m.timestamp <= m.duration)

PruneMessages(msgs, t) ==
    SelectSeq(msgs, LAMBDA m : t - m.timestamp < m.duration)

\* -------------------------------------------------------------- commands
\* A comment is a sequence of one-character strings.
Spaces == {" ", "\t", "\n"}

\* str.lower on the letters the model types
LowerChar(c) ==
    CASE c = "M" -> "m"
      [] c = "S" -> "s"
      [] c = "G" -> "g"
      [] c = "A" -> "a"
      [] OTHER -> c

Lower(s) == [i \in 1..Len(s) |-> LowerChar(s[i])]

RECURSIVE StripLeft(_)
StripLeft(s) ==
    IF s # <<>> /\ Head(s) \in Spaces THEN StripLeft(Tail(s)) ELSE s

RECURSIVE StripRight(_)
StripRight(s) ==
    IF s # <<>> /\ s[Len(s)] \in Spaces
    THEN StripRight(SubSeq(s, 1, Len(s) - 1))
    ELSE s

\* str.strip
Strip(s) == StripRight(StripLeft(s))

HasLinefeed(s) == \E i \in 1..Len(s) : s[i] = "\n"

\* what (.+)$ captures of r: all of r, or r without a final line feed;
\* <<>> when it cannot match ('.' matches no line feed, and needs a character)
DotPlusEnd(r) ==
    LET body == IF r # <<>> /\ r[Len(r)] = "\n"
                THEN SubSeq(r, 1, Len(r) - 1) ELSE r
    IN  IF body # <<>> /\ ~HasLinefeed(body) THEN body ELSE <<>>

\* length of the run of white space of t that starts at position i
RECURSIVE SpaceRun(_, _)
SpaceRun(t, i) ==
    IF i <= Len(t) /\ t[i] \in Spaces THEN 1 + SpaceRun(t, i + 1) ELSE 0

\* \s+(.+)$ from position 4 with \s+ taking k characters, k = run down to 1
\* (greedy, then backtracking); the captured group, <<>> for no match
RECURSIVE MatchRest(_, _)
MatchRest(t, k) ==
    IF k < 1 THEN <<>>
    ELSE LET g == DotPlusEnd(SubSeq(t, 4 + k, Len(t)))
         IN  IF g # <<>> THEN g ELSE MatchRest(t, k - 1)

\* re.match(r'^msg\s+(.+)$', t): group(1), or <<>> when there is no match
MsgMatch(t) ==
    IF Len(t) >= 4 /\ SubSeq(t, 1, 3) = <<"m", "s", "g">>
    THEN MatchRest(t, SpaceRun(t, 4))
    ELSE <<>>

NoCommand == [kind |-> "none", parameter |-> <<>>]

\* CommandProcessor.parse_command; CommandType has the one member MSG, so
\* the loop over the simple commands finds nothing
ParseCommand(comment) ==
    LET t == Lower(Strip(comment))
        message == Strip(MsgMatch(t))
    IN  IF MsgMatch(t) # <<>> /\ Len(message) > 0 /\ Len(message) <= MsgMaxLen
        THEN [kind |-> "msg", parameter |-> message]
        ELSE NoCommand

\* app_config.COMMAND_COSTS.get(command_type.value, 0)
CostOf(kind) == IF kind = "msg" THEN MsgCost ELSE 0

\* can_afford_command without the comparison with the cost
CanAffordCommand_KnownOnly(u, kind, us) == u \in Usernames(us)

\* can_afford_command comparing the score with 0 instead of the cost
CanAffordCommand_Positive(u, kind, us) ==
    IF u \notin Usernames(us) THEN FALSE ELSE ScoreOf(us, u) > 0

\* CommandProcessor.can_afford_command
CanAffordCommand(u, kind, us) ==
    IF u \notin Usernames(us) THEN FALSE ELSE ScoreOf(us, u) >= CostOf(kind)

\* _execute_msg_command without duration=6.0: the dataclass default of 5.0
NewScreenMessage_DefaultDuration(u, message, t) ==
    [username |-> u, message |-> message, timestamp |-> t, duration |-> 5]

\* CommandProcessor._execute_msg_command: the ScreenMessage appended
NewScreenMessage(u, message, t) ==
    [username |-> u, message |-> message, timestamp |-> t, duration |-> MsgDuration]

\* CommandProcessor.execute_command at clock t:
\* [ret, user_scores, screen_messages]
ExecuteCommand(u, kind, parameter, us, msgs, t) ==
    IF ~CanAffordCommand(u, kind, us)
    THEN [ret |-> FALSE, user_scores |-> us, screen_messages |-> msgs]
    ELSE [ret |-> TRUE,
          user_scores |-> AddScore(us, u, -CostOf(kind)),
          screen_messages |-> IF kind = "msg"
                              THEN Append(msgs, NewScreenMessage(u, parameter, t))
                              ELSE msgs]

\* sorted() putting an entry before the entries it ties with
InsertByScore_TiesFirst(sorted, e) ==
    LET k == Cardinality({i \in 1..Len(sorted) : sorted[i].score > e.score})
    IN  SubSeq(sorted, 1, k) \o <<e>> \o SubSeq(sorted, k + 1, Len(sorted))

\* GameState.get_top_users: sorted(values, key=score, reverse=True)[:limit].
\* sorted is stable, also with reverse=True: an entry goes behind every
\* entry already placed whose score is at least its own.
InsertByScore(sorted, e) ==
    LET ahead == Cardinality({j \in 1..Len(sorted) : sorted[j].score >= e.score})
    IN  SubSeq(sorted, 1, ahead) \o <<e>> \o SubSeq(sorted, ahead + 1, Len(sorted))

RECURSIVE SortPrefix(_, _)
SortPrefix(us, n) ==
    IF n = 0 THEN <<>> ELSE InsertByScore(SortPrefix(us, n - 1), us[n])

SortedByScore(us) == SortPrefix(us, Len(us))

\* list[:limit] for limit >= 0
GetTopUsers(us, limit) == SubSeq(SortedByScore(us), 1, Min(limit, Len(us)))

\* ----------------------------------------------------------------- state
VARIABLES
    balls,            \* GameState.balls
    pegs,             \* GameState.pegs
    user_scores,      \* GameState.user_scores, in insertion order
    sound_events,     \* GameState.sound_events
    screen_messages,  \* CommandProcessor.screen_messages
    now,              \* time.time(), whole seconds
    next_id,          \* identity of the next Ball object created
    last,             \* the call that has just returned: name, arguments, result;
                      \* op = "idle" once the caller has taken the result
    threads,          \* where the ingestion thread (ev) and the game-loop
                      \* thread (gl) stand when they run side by side
    config,           \* GameState.config: the board the game was built with
    events            \* the EventCoordinator, its event loops and its EventSource

vars == <<balls, pegs, user_scores, sound_events, screen_messages, now,
          next_id, last, threads, config, events>>

core == <<balls, pegs, user_scores, sound_events, screen_messages>>

\* ---------------------------------------------------------------- bounds
MaxSpawns == 2
MaxTicks == 1
TickSecs == 6
MaxLimit == 2

Users == {"alice", "bob"}
\* draws of random.uniform(-40, 40): 0 and 20 px/s
VxSet == {0, (SpawnVxMax * VU) \div 2}
\* frame time of the sequential specification: a quarter of a second
DtSet == {TU \div 4}

Comments ==
    { <<"h", "o", "l", "a">>,
      <<" ", "M", "s", "G", "\t", " ", "A", " ", "a", "\n">>,
      <<"m", "s", "g", " ">> \o [i \in 1..(MsgMaxLen + 1) |-> "a"] }

RECURSIVE TotalScore(_)
TotalScore(us) == IF us = <<>> THEN 0 ELSE Head(us).score + TotalScore(Tail(us))

\* sizes of the state a call starts from
Pre ==
    [balls |-> Len(balls), sounds |-> Len(sound_events),
     msgs |-> Len(screen_messages), total |-> TotalScore(user_scores)]

\* the record of a call: op its name, user and num and text its arguments,
\* ret and top its results, pre the sizes of the state it started from
Call(op, user, num, text, ret, top) ==
    [op |-> op, user |-> user, num |-> num, text |-> text, ret |-> ret,
     top |-> top, pre |-> Pre]

Idle ==
    [op |-> "idle", user |-> "", num |-> 0, text |-> <<>>, ret |-> FALSE,
     top |-> <<>>, pre |-> [balls |-> 0, sounds |-> 0, msgs |-> 0, total |-> 0]]

\* the ingestion thread between two events; seen counts the events
\* handled, left the spawn_ball calls the handler has still to make, applied
\* the writes of the event done so far: the debit, the message, and each
\* completed spawn_ball call
EvWait(seen) ==
    [pc |-> "wait", kind |-> "", user |-> "", text |-> <<>>, left |-> 0,
     applied |-> 0, seen |-> seen]

\* the game-loop thread between two frames
GlIdle(frames) ==
    [pc |-> "idle", i |-> 0, active_balls |-> <<>>, frames |-> frames]

NoThreads == [ev |-> EvWait(0), gl |-> GlIdle(0)]

\* DummyEventSource.__init__: stops counts the stop() coroutines run to
\* their end, generated and delivered the events drawn by run() and those
\* that reached the comment callback
NoSource == [running |-> FALSE, stops |-> 0, generated |-> 0, delivered |-> 0]

\* EventCoordinator.__init__ over EventSource.__init__: registered is the
\* five _on_*_cb being set, follow_callbacks the length of _follow_callbacks,
\* loops the event loops created so far, each with its thread and the task
\* of the source's run() (self.loop and self.thread are the last ones), pc
\* where the main thread stands in
\* stop(), starts and stop_calls the calls that took effect
NoEvents ==
    [running |-> FALSE, registered |-> FALSE, follow_callbacks |-> 0,
     loops |-> <<>>, pc |-> "idle", starts |-> 0, stop_calls |-> 0,
     source |-> NoSource]

\* GameState.__init__
Init ==
    /\ balls = <<>>
    /\ pegs = CreatePegs
    /\ user_scores = <<>>
    /\ sound_events = <<>>
    /\ screen_messages = <<>>
    /\ now = 0
    /\ next_id = 1
    /\ last = Idle
    /\ threads = NoThreads
    /\ config = DefaultConfig
    /\ events = NoEvents

\* the Ball built by GameState.spawn_ball
NewBall(id, u, vx) ==
    [id |-> id,
     x |-> (width * PU) \div 2,
     y |-> (top_margin - SpawnDrop) * PU,
     vx |-> vx,
     vy |-> 0,
     radius |-> ball_radius,
     username |-> u,
     active |-> TRUE,
     rotation |-> 0]

\* the registration giving the user a fresh record on every spawn
Register_Fresh(us, u) ==
    IF u \in Usernames(us)
    THEN [us EXCEPT ![IndexOf(us, u)].score = 0]
    ELSE Append(us, [username |-> u, score |-> 0])

\* the ledger after spawn_ball's registration of the user
Register(us, u) ==
    IF u \in Usernames(us) THEN us ELSE Append(us, [username |-> u, score |-> 0])

\* GameState.spawn_ball(username); vx is the draw of random.uniform(-40, 40)
SpawnBall(u, vx) ==
    /\ last = Idle
    /\ next_id <= MaxSpawns
    /\ user_scores' = Register(user_scores, u)
    /\ balls' = Append(balls, NewBall(next_id, u, vx))
    /\ next_id' = next_id + 1
    /\ last' = Call("spawn_ball", u, vx, <<>>, FALSE, <<>>)
    /\ UNCHANGED <<events, config, pegs, sound_events, screen_messages, now, threads>>

\* the state GameState.update(dt) leaves, from the state given
UpdateResult(bs, ps, us, snd, dt) ==
    LET r == UpdateLoop(bs, 1, dt,
                        [active_balls |-> <<>>, pegs |-> ps, user_scores |-> us,
                         sound_events |-> snd, scored |-> <<>>])
    IN  [r EXCEPT !.pegs = [k \in 1..Len(r.pegs) |-> DecayPeg(r.pegs[k], dt)]]

\* the body of GameState.update(dt)
UpdateCall(dt) ==
    /\ LET r == UpdateResult(balls, pegs, user_scores, sound_events, dt)
       IN  /\ balls' = r.active_balls
           /\ pegs' = r.pegs
           /\ user_scores' = r.user_scores
           /\ sound_events' = r.sound_events
    /\ screen_messages' = PruneMessages(screen_messages, now)
    /\ last' = Call("update", "", dt, <<>>, FALSE,
                     UpdateResult(balls, pegs, user_scores, sound_events, dt).scored)
    /\ UNCHANGED <<events, config, now, next_id, threads>>

\* GameState.update(dt)
Update(dt) == last = Idle /\ UpdateCall(dt)

\* process_comment returning True for every parsed command, executed or not
ProcessCommentResult_AlwaysTrue(u, c, us, msgs, t) ==
    LET cmd == ParseCommand(c)
    IN  IF cmd # NoCommand
        THEN [ExecuteCommand(u, cmd.kind, cmd.parameter, us, msgs, t)
                 EXCEPT !.ret = TRUE]
        ELSE [ret |-> FALSE, user_scores |-> us, screen_messages |-> msgs]

\* what GameState.process_comment returns and leaves, at clock t:
\* [ret, user_scores, screen_messages]
ProcessCommentResult(u, c, us, msgs, t) ==
    LET cmd == ParseCommand(c)
    IN  IF cmd # NoCommand
        THEN ExecuteCommand(u, cmd.kind, cmd.parameter, us, msgs, t)
        ELSE [ret |-> FALSE, user_scores |-> us, screen_messages |-> msgs]

\* the body of GameState.process_comment(username, comment)
ProcessCommentCall(u, c) ==
    LET r == ProcessCommentResult(u, c, user_scores, screen_messages, now)
    IN  /\ user_scores' = r.user_scores
        /\ screen_messages' = r.screen_messages
        /\ last' = Call("process_comment", u, 0, c, r.ret, <<>>)
        /\ UNCHANGED <<events, config, balls, pegs, sound_events, now, next_id, threads>>

\* GameState.process_comment(username, comment)
ProcessComment(u, c) == last = Idle /\ ProcessCommentCall(u, c)

\* reset emptying the ledger instead of zeroing it
ResetScores_ClearLedger(us) == <<>>

\* the loop of GameState.reset over user_scores.values()
ResetScores(us) == [i \in 1..Len(us) |-> [us[i] EXCEPT !.score = 0]]

\* GameState.reset
Reset ==
    /\ last = Idle
    /\ balls' = <<>>
    /\ user_scores' = ResetScores(user_scores)
    /\ sound_events' = <<>>
    /\ last' = Call("reset", "", 0, <<>>, FALSE, <<>>)
    /\ UNCHANGED <<events, config, pegs, screen_messages, now, next_id, threads>>

\* GameState.get_top_users(limit)
TopUsers(limit) ==
    /\ last = Idle
    /\ last' = Call("get_top_users", "", limit, <<>>, FALSE, GetTopUsers(user_scores, limit))
    /\ UNCHANGED <<events, config, core, now, next_id, threads>>

\* the wall clock moves on
Tick ==
    /\ last = Idle
    /\ now < MaxTicks * TickSecs
    /\ now' = now + TickSecs
    /\ UNCHANGED <<events, config, core, next_id, last, threads, config>>

\* the caller takes the result; the next call can be made
Return ==
    /\ last # Idle
    /\ last' = Idle
    /\ UNCHANGED <<events, config, core, now, next_id, threads>>

Next ==
    \/ \E u \in Users, vx \in VxSet : SpawnBall(u, vx)
    \/ \E dt \in DtSet : Update(dt)
    \/ \E u \in Users, c \in Comments : ProcessComment(u, c)
    \/ Reset
    \/ Tick
    \/ Return

Spec == Init /\ [][Next]_vars

\* ------------------------------------------------- claims, sequential core
\* the command a process_comment call parsed, and its caller's standing
\* in the ledger the call started from
ParsedOf(c) == ParseCommand(c)

Known(u) == \E i \in 1..Len(user_scores) : user_scores[i].username = u

ScoreBefore(u) == user_scores[CHOOSE i \in 1..Len(user_scores) : user_scores[i].username = u].score

\* C1: a command of a user who is not in the ledger, or whose score is lower
\* than the command's cost, returns False and changes no score, no
\* screen message, no ball and no peg.
C1_UnaffordableChangesNothing ==
    [][(/\ last'.op = "process_comment"
        /\ ParsedOf(last'.text).kind = "msg"
        /\ (~Known(last'.user) \/ ScoreBefore(last'.user) < 50))
       => (last'.ret = FALSE /\ UNCHANGED core)]_vars

\* a msg command by a known user holding a positive score below the cost
C1_Witness ==
    /\ last.op = "process_comment"
    /\ ParsedOf(last.text).kind = "msg"
    /\ Known(last.user)
    /\ ScoreBefore(last.user) > 0
    /\ ScoreBefore(last.user) < 50
    /\ last.ret = FALSE

\* C2: a msg command of a known user whose score is at least the cost returns
\* True, lowers that user's score by exactly the cost, leaves every other
\* ledger entry as it was, and appends exactly one ScreenMessage of
\* duration 6 at the tail of the screen-message queue.
C2_MsgDebitsAndQueues ==
    [][(/\ last'.op = "process_comment"
        /\ ParsedOf(last'.text).kind = "msg"
        /\ Known(last'.user)
        /\ ScoreBefore(last'.user) >= 50)
       => (/\ last'.ret = TRUE
           /\ Len(user_scores') = Len(user_scores)
           /\ \A i \in 1..Len(user_scores) :
                 IF user_scores[i].username = last'.user
                 THEN user_scores'[i] = [user_scores[i] EXCEPT !.score = @ - 50]
                 ELSE user_scores'[i] = user_scores[i]
           /\ Len(screen_messages') = Len(screen_messages) + 1
           /\ SubSeq(screen_messages', 1, Len(screen_messages)) = screen_messages
           /\ screen_messages'[Len(screen_messages')].duration = 6
           /\ screen_messages'[Len(screen_messages')].username = last'.user
           /\ screen_messages'[Len(screen_messages')].message
                 = ParsedOf(last'.text).parameter
           /\ UNCHANGED <<balls, pegs, sound_events>>)]_vars

\* a user went from 50 to 0, another user is in the ledger, and the message
\* went behind one already queued
C2_Witness ==
    /\ last.op = "process_comment"
    /\ last.ret = TRUE
    /\ last.pre.total - TotalScore(user_scores) = 50
    /\ Len(user_scores) >= 2
    /\ ScoreBefore(last.user) = 0
    /\ Len(screen_messages) >= 2
    /\ screen_messages[Len(screen_messages)].username = last.user

\* C3: whatever sequence of spawn_ball, process_comment, update and reset
\* calls has run, every score in the ledger is >= 0.
C3_ScoresNonNegative ==
    \A i \in 1..Len(user_scores) : user_scores[i].score >= 0

\* a debit has just left its user with a positive score below the cost
C3_Witness ==
    /\ last.op = "process_comment"
    /\ last.ret = TRUE
    /\ ScoreBefore(last.user) > 0
    /\ ScoreBefore(last.user) < 50

\* the balls of the list after this frame's integration and collision pass
SteppedBalls(dt) ==
    [i \in 1..Len(balls) |-> HandleCollisions(BallUpdate(balls[i], dt), pegs, 1).ball]

BelowBottom(b) == b.y < (800 - 20 - 10) * PU

RECURSIVE PointsOf(_)
PointsOf(bs) == IF bs = <<>> THEN 0 ELSE SlotPoints(Head(bs).x) + PointsOf(Tail(bs))

\* C5: after update(dt) the ball list holds exactly the previously listed
\* balls that are still above the bottom boundary after this frame's step,
\* in their order and all active; every ball at or past the boundary was
\* passed to the scoring routine exactly once, in list order, and is gone.
C5_UpdateKeepsExactlyTheBallsAbove ==
    [][last'.op = "update"
       => LET stepped == SteppedBalls(last'.num)
              kept == SelectSeq(stepped, BelowBottom)
              gone == SelectSeq(stepped, LAMBDA b : ~BelowBottom(b))
          IN  /\ balls' = kept
              /\ \A i \in 1..Len(balls') : balls'[i].active = TRUE
              /\ last'.top = [i \in 1..Len(gone) |-> gone[i].id]
              /\ \A i \in 1..Len(gone) : \A j \in 1..Len(balls') : balls'[j].id # gone[i].id
              /\ sound_events' = sound_events
                     \o [i \in 1..Len(gone) |-> <<"slot_hit", gone[i].x, gone[i].y>>]
              /\ TotalScore(user_scores') = TotalScore(user_scores) + PointsOf(gone)]_vars

\* a frame that scored the first ball of the list and kept the second
C5_Witness ==
    /\ last.op = "update"
    /\ last.pre.balls = 2
    /\ Len(last.top) = 1
    /\ Len(balls) = 1
    /\ last.top[1] < balls[1].id

\* C7: reset leaves the ball list empty, every registered user at score 0
\* with the same usernames in the same order, the notification queue empty
\* and the pegs (length, positions, hit_timer values) as they were.
C7_ResetFrame ==
    [][last'.op = "reset"
       => (/\ balls' = <<>>
           /\ Len(user_scores') = Len(user_scores)
           /\ \A i \in 1..Len(user_scores) :
                 /\ user_scores'[i].username = user_scores[i].username
                 /\ user_scores'[i].score = 0
           /\ sound_events' = <<>>
           /\ pegs' = pegs)]_vars

\* a reset of a game with a ball in flight, points on the ledger of two
\* users, a pending notification and a glowing peg
C7_Witness ==
    /\ last.op = "reset"
    /\ last.pre.balls > 0
    /\ last.pre.total > 0
    /\ last.pre.sounds > 0
    /\ Len(user_scores) = 2
    /\ \E k \in 1..Len(pegs) : pegs[k].hit_timer > 0

\* C9: process_comment returns True exactly when the text parses as a
\* command and its user is in the ledger with a score of at least the cost;
\* for a text that is no command it returns False and changes neither the
\* ledger, the screen messages, the balls nor the pegs.
C9_ProcessCommentResult ==
    [][last'.op = "process_comment"
       => (/\ last'.ret = (/\ ParsedOf(last'.text).kind = "msg"
                           /\ Known(last'.user)
                           /\ ScoreBefore(last'.user) >= 50)
           /\ (ParsedOf(last'.text).kind = "none" => UNCHANGED core))]_vars

\* an ordinary comment by a user who could have paid for a command
C9_Witness ==
    /\ last.op = "process_comment"
    /\ ParsedOf(last.text).kind = "none"
    /\ last.ret = FALSE
    /\ Known(last.user)
    /\ ScoreBefore(last.user) >= 50


\* ------------------------------------------------------------- leaderboard
\* The ranking is a pure function of the ledger: SpecTop starts from every
\* ledger of up to MaxLedger users with scores the slots can add up to, and
\* ranks it with every limit 0..MaxLimit.
MaxLedger == 3

LedgerNames == <<"alice", "bob", "carol", "dave", "eve">>

\* totals a user can hold: nothing yet, the centre slot, an outer slot
LedgerScores == {0, slot_scores[5], slot_scores[2]}

Ledgers ==
    UNION { { [i \in 1..n |-> [username |-> LedgerNames[i], score |-> f[i]]] :
                f \in [1..n -> LedgerScores] } : n \in 0..MaxLedger }

\* a game whose balls have all been scored and whose notifications the
\* renderer has played
InitTop ==
    /\ balls = <<>>
    /\ pegs = CreatePegs
    /\ user_scores \in Ledgers
    /\ sound_events = <<>>
    /\ screen_messages = <<>>
    /\ now = 0
    /\ next_id = 1
    /\ last = Idle
    /\ threads = NoThreads
    /\ config = DefaultConfig
    /\ events = NoEvents

NextTop ==
    \/ \E limit \in 0..MaxLimit : TopUsers(limit)
    \/ Return

SpecTop == InitTop /\ [][NextTop]_vars

\* position of a returned pair in the ledger
LedgerPos(e) ==
    CHOOSE i \in 1..Len(user_scores) : user_scores[i].username = e.username

\* C8: get_top_users(limit) returns at most limit (username, score) pairs,
\* as many as the ledger allows; they are ledger entries, each user once, the
\* highest-scoring ones, in descending score with equal scores in ledger
\* insertion order; the call changes no game state.
C8_TopUsersRanking ==
    [][(last'.op = "get_top_users") =>
        LET r == last'.top
            limit == last'.num
            n == Len(r)
        IN  /\ UNCHANGED core
            /\ n <= limit
            /\ n = Min(limit, Len(user_scores))
            /\ \A i \in 1..n :
                 \E j \in 1..Len(user_scores) : r[i] = user_scores[j]
            /\ \A i, j \in 1..n : i < j =>
                 /\ r[i].username # r[j].username
                 /\ r[i].score >= r[j].score
                 /\ (r[i].score = r[j].score => LedgerPos(r[i]) < LedgerPos(r[j]))
            /\ \A j \in 1..Len(user_scores) :
                 (\A i \in 1..n : r[i].username # user_scores[j].username) =>
                   \A i \in 1..n :
                     \/ r[i].score > user_scores[j].score
                     \/ /\ r[i].score = user_scores[j].score
                        /\ LedgerPos(r[i]) < j]_vars

\* three users, the first of them behind two who tie: the ranking has to
\* reorder, keep the tie in ledger order and cut to the limit
C8_Witness ==
    /\ last.op = "get_top_users"
    /\ Len(user_scores) = 3
    /\ last.num = 2
    /\ Len(last.top) = 2
    /\ last.top[1].score = last.top[2].score
    /\ user_scores[1].score < last.top[1].score
    /\ last.top[1] = user_scores[2]
    /\ last.top[2] = user_scores[3]

\* ----------------------------------------------------------------- parsing
\* parse_command is a pure function of the comment: SpecParse starts with a
\* comment in hand, built as lead, keyword, gap, text, trail, parses it and
\* then hands it to process_comment for a user who can pay.
MaxOver == 2

Fill(n) == [i \in 1..n |-> "a"]

Leads == {<<>>, <<" ">>, <<"\n", "\t">>}

Keywords ==
    {<<"m", "s", "g">>, <<"M", "S", "G">>, <<"M", "s", "G">>, <<"m", "s">>,
     <<"m", "s", "g", "s">>}

Gaps == {<<>>, <<" ">>, <<"\t">>, <<"\n">>, <<" ", " ">>}

Texts ==
    {Fill(n) : n \in 0..(MsgMaxLen + MaxOver)}
      \cup {<<"a", j, "b">> : j \in Spaces}
      \cup {<<"A", "b">>}

Trails == {<<>>, <<" ">>, <<"\n">>}

ParseInputs ==
    {l \o k \o g \o x \o t :
        l \in Leads, k \in Keywords, g \in Gaps, x \in Texts, t \in Trails}

\* alice holds the points of one outer slot; a comment of hers has arrived
InitParse ==
    /\ balls = <<>>
    /\ pegs = CreatePegs
    /\ user_scores = <<[username |-> "alice", score |-> slot_scores[1]]>>
    /\ sound_events = <<>>
    /\ screen_messages = <<>>
    /\ now = 0
    /\ next_id = 1
    /\ \E c \in ParseInputs :
         last = [Idle EXCEPT !.op = "comment", !.user = "alice", !.text = c]
    /\ threads = NoThreads
    /\ config = DefaultConfig
    /\ events = NoEvents

\* CommandProcessor.parse_command(comment): ret tells a command was
\* recognised, top is its parameter
ParseCommandCall ==
    /\ last.op = "comment"
    /\ last' = Call("parse_command", last.user, 0, last.text,
                     ParseCommand(last.text) # NoCommand,
                     ParseCommand(last.text).parameter)
    /\ UNCHANGED <<events, config, core, now, next_id, threads>>

\* the comment goes to GameState.process_comment
ProcessParsed ==
    /\ last.op = "parse_command"
    /\ ProcessCommentCall(last.user, last.text)

NextParse ==
    \/ ParseCommandCall
    \/ ProcessParsed
    \/ Return

SpecParse == InitParse /\ [][NextParse]_vars

\* the inputs the documented format 'msg {message}' describes: trimmed and
\* lower-cased, 'msg', a run of white space, and a text of 1 to MsgMaxLen
\* characters
MsgForm(c) ==
    LET t == Lower(Strip(c))
    IN  \E k \in 1..Len(t) :
          /\ Len(t) > 3 + k
          /\ SubSeq(t, 1, 3) = <<"m", "s", "g">>
          /\ \A i \in 4..(3 + k) : t[i] \in Spaces
          /\ t[4 + k] \notin Spaces
          /\ Len(t) - (3 + k) <= MsgMaxLen

\* C10: parse_command recognises exactly the inputs that, trimmed and with
\* letter case ignored, are 'msg', white space and a text of 1 to 50
\* characters, and every message queued through process_comment has length
\* 1..50.
C10_RecognisesExactlyMsgForm ==
    /\ (last.op = "parse_command" => (last.ret <=> MsgForm(last.text)))
    /\ \A i \in 1..Len(screen_messages) :
         Len(screen_messages[i].message) \in 1..MsgMaxLen

\* what does hold: a recognised input has the form, an input of the form
\* with no line feed inside its text is recognised, and the queued messages
\* have length 1..50
ParseCommandOneLine ==
    /\ (last.op = "parse_command" =>
          /\ (last.ret => MsgForm(last.text))
          /\ (MsgForm(last.text) /\ ~last.ret => HasLinefeed(Strip(last.text)))
          /\ (last.ret => Len(last.top) \in 1..MsgMaxLen))
    /\ \A i \in 1..Len(screen_messages) :
         Len(screen_messages[i].message) \in 1..MsgMaxLen

\* ---------------------------------------------------------------- one ball
\* One ball on the default board, stepped at 60 frames a second for as long
\* as it is in play. The game loop calls update every frame, so a frame
\* that can be taken is taken: weak fairness of the frame and of its return.
FallVxSet == {-SpawnVxMax * VU, -(SpawnVxMax * VU) \div 2, 0,
              (SpawnVxMax * VU) \div 2, SpawnVxMax * VU}

InitFall == Init

\* spawn_ball("alice") with the draw vx
FallSpawn(vx) == next_id = 1 /\ SpawnBall("alice", vx)

\* update(1/60) on the ball in play
FallFrame == balls # <<>> /\ Update(1)

NextFall ==
    \/ \E vx \in FallVxSet : FallSpawn(vx)
    \/ FallFrame
    \/ Return

\* the call record a frame leaves: the steps of NextFall that change last
\* this way are the steps of FallFrame, and one is possible whenever
\* FallFrame is
FrameReturns ==
    /\ balls # <<>>
    /\ last = Idle
    /\ \E scored \in {<<>>, <<balls[1].id>>} :
         last' = Call("update", "", 1, <<>>, FALSE, scored)

SpecFall ==
    InitFall /\ [][NextFall]_vars /\ WF_last(FrameReturns) /\ WF_vars(Return)

SlotValues == {slot_scores[i] : i \in 1..slot_count}

\* C6: a ball spawned with any horizontal velocity in [-40, 40] and stepped
\* with dt = 1/60 eventually reaches the bottom: it leaves the ball list and
\* its owner's score has grown by exactly one slot value.
C6_BallReachesBottom ==
    (Len(balls) = 1) ~>
        (balls = <<>> /\ Len(user_scores) = 1
                      /\ user_scores[1].score \in SlotValues)

\* ----------------------------------------------------------------- threads
\* EventCoordinator runs the event handlers in its own thread; GameApp runs
\* the game loop in the main thread. Neither takes a lock, so the steps of a
\* handler and the steps of a frame interleave freely. A handler step is
\* one write to the shared state; a frame step is one iteration of a loop of
\* update, the rebinding of the ball list, or the drawing.
MaxEvents == 2
MaxFrames == 4

BALLS_PER_COMMENT == 1
BALLS_PER_LIKE == 1
BALLS_PER_FOLLOW == 2
BALLS_PER_SHARE == 3

EventKinds == {"comment", "like", "follow", "share"}

BallsPer(kind) ==
    CASE kind = "comment" -> BALLS_PER_COMMENT
      [] kind = "like" -> BALLS_PER_LIKE
      [] kind = "follow" -> BALLS_PER_FOLLOW
      [] kind = "share" -> BALLS_PER_SHARE

ThreadUsers == {"alice"}

\* the one draw of random.uniform(-40, 40) that takes a ball to an outer slot
ThreadVxSet == {SpawnVxMax * VU}

ThreadDt == TU \div 4

\* comment texts: no command, and a msg command
ThreadTexts == {<<"h", "o", "l", "a">>, <<"m", "s", "g", " ", "a">>}

InitThreads == Init

\* a handler of EventCoordinator is called with an event
EvReceive(kind, u, c) ==
    /\ threads.ev.pc = "wait"
    /\ threads.ev.seen < MaxEvents
    /\ threads' = [threads EXCEPT !.ev =
                     [pc |-> IF kind = "comment" THEN "comment" ELSE "spawn",
                      kind |-> kind, user |-> u,
                      text |-> IF kind = "comment" THEN c ELSE <<>>,
                      left |-> BallsPer(kind), applied |-> 0,
                      seen |-> threads.ev.seen + 1]]
    /\ UNCHANGED <<events, config, core, now, next_id, last>>

\* _handle_comment calls process_comment: parse_command, then
\* execute_command's affordability test
EvParse ==
    LET ev == threads.ev
        cmd == ParseCommand(ev.text)
    IN  /\ ev.pc = "comment"
        /\ threads' = [threads EXCEPT !.ev.pc =
                         IF cmd # NoCommand
                            /\ CanAffordCommand(ev.user, cmd.kind, user_scores)
                         THEN "debit" ELSE "spawn"]
        /\ UNCHANGED <<events, config, core, now, next_id, last>>

\* execute_command: user_scores[username].score -= cost
EvDebit ==
    LET ev == threads.ev
    IN  /\ ev.pc = "debit"
        /\ user_scores' = AddScore(user_scores, ev.user, -CostOf("msg"))
        /\ threads' = [threads EXCEPT !.ev.pc = "message",
                                      !.ev.applied = @ + 1]
        /\ UNCHANGED <<events, config, balls, pegs, sound_events, screen_messages, now,
                       next_id, last>>

\* _execute_msg_command: screen_messages.append(...)
EvMessage ==
    LET ev == threads.ev
    IN  /\ ev.pc = "message"
        /\ screen_messages' =
             Append(screen_messages,
                    NewScreenMessage(ev.user, ParseCommand(ev.text).parameter, now))
        /\ threads' = [threads EXCEPT !.ev.pc = "spawn", !.ev.applied = @ + 1]
        /\ UNCHANGED <<events, config, balls, pegs, user_scores, sound_events, now, next_id,
                       last>>

\* spawn_ball: the user is registered if the ledger does not know it
EvRegister ==
    LET ev == threads.ev
    IN  /\ ev.pc = "spawn"
        /\ user_scores' = Register(user_scores, ev.user)
        /\ threads' = [threads EXCEPT !.ev.pc = "append"]
        /\ UNCHANGED <<events, config, balls, pegs, sound_events, screen_messages, now,
                       next_id, last>>

\* spawn_ball: balls.append(Ball(...)); the handler's loop goes on to the
\* next spawn_ball or the handler returns
EvAppend(vx) ==
    LET ev == threads.ev
    IN  /\ ev.pc = "append"
        /\ balls' = Append(balls, NewBall(next_id, ev.user, vx))
        /\ next_id' = next_id + 1
        /\ threads' = [threads EXCEPT !.ev =
                         IF ev.left = 1
                         THEN EvWait(ev.seen)
                         ELSE [ev EXCEPT !.pc = "spawn", !.left = @ - 1,
                                         !.applied = @ + 1]]
        /\ UNCHANGED <<events, config, pegs, user_scores, sound_events, screen_messages, now,
                       last>>

\* _handle_keydown on K_r, between two frames: GameState.reset()
GlReset ==
    /\ threads.gl.pc = "idle"
    /\ balls' = <<>>
    /\ user_scores' = ResetScores(user_scores)
    /\ sound_events' = <<>>
    /\ UNCHANGED <<events, config, pegs, screen_messages, now, next_id, last, threads, config>>

\* update begins: active_balls = [], command_processor.update(dt)
GlBegin ==
    /\ threads.gl.pc = "idle"
    /\ threads.gl.frames < MaxFrames
    /\ screen_messages' = PruneMessages(screen_messages, now)
    /\ threads' = [threads EXCEPT !.gl =
                     [pc |-> "loop", i |-> 1, active_balls |-> <<>>,
                      frames |-> threads.gl.frames + 1]]
    /\ UNCHANGED <<events, config, balls, pegs, user_scores, sound_events, now, next_id, last>>

\* one iteration of 'for ball in self.balls' over the shared list
GlBall ==
    LET gl == threads.gl
        b == balls[gl.i]
        c == HandleCollisions(BallUpdate(b, ThreadDt), pegs, 1)
        s == HandleBallScored(c.ball, user_scores, sound_events)
    IN  /\ gl.pc = "loop"
        /\ gl.i <= Len(balls)
        /\ IF ~b.active
           THEN /\ threads' = [threads EXCEPT !.gl.i = @ + 1]
                /\ UNCHANGED <<balls, pegs, user_scores, sound_events>>
           ELSE IF AtBottom(c.ball)
           THEN /\ balls' = [balls EXCEPT ![gl.i] = [c.ball EXCEPT !.active = FALSE]]
                /\ pegs' = c.pegs
                /\ user_scores' = s.user_scores
                /\ sound_events' = s.sound_events
                /\ threads' = [threads EXCEPT !.gl.i = @ + 1]
           ELSE /\ balls' = [balls EXCEPT ![gl.i] = c.ball]
                /\ pegs' = c.pegs
                /\ threads' = [threads EXCEPT
                                 !.gl.i = @ + 1,
                                 !.gl.active_balls = Append(@, c.ball)]
                /\ UNCHANGED <<user_scores, sound_events>>
        /\ UNCHANGED <<events, config, screen_messages, now, next_id, last>>

\* the iterator over self.balls is exhausted
GlLoopEnd ==
    /\ threads.gl.pc = "loop"
    /\ threads.gl.i > Len(balls)
    /\ threads' = [threads EXCEPT !.gl.pc = "assign"]
    /\ UNCHANGED <<events, config, core, now, next_id, last>>

\* self.balls = active_balls
GlAssign ==
    /\ threads.gl.pc = "assign"
    /\ balls' = threads.gl.active_balls
    /\ threads' = [threads EXCEPT !.gl.pc = "pegs", !.gl.i = 0,
                                  !.gl.active_balls = <<>>]
    /\ UNCHANGED <<events, config, pegs, user_scores, sound_events, screen_messages, now,
                   next_id, last>>

\* the peg loop closing update
GlPegs ==
    /\ threads.gl.pc = "pegs"
    /\ pegs' = [k \in 1..Len(pegs) |-> DecayPeg(pegs[k], ThreadDt)]
    /\ threads' = [threads EXCEPT !.gl.pc = "draw"]
    /\ UNCHANGED <<events, config, balls, user_scores, sound_events, screen_messages, now,
                   next_id, last>>

\* renderer.draw(): the frame is drawn from the shared state and the
\* notifications are popped
GlDraw ==
    /\ threads.gl.pc = "draw"
    /\ sound_events' = <<>>
    /\ threads' = [threads EXCEPT !.gl.pc = "idle"]
    /\ UNCHANGED <<events, config, balls, pegs, user_scores, screen_messages, now, next_id,
                   last>>

NextThreads ==
    \/ \E kind \in EventKinds, u \in ThreadUsers, c \in ThreadTexts :
         EvReceive(kind, u, c)
    \/ EvParse
    \/ EvDebit
    \/ EvMessage
    \/ EvRegister
    \/ \E vx \in ThreadVxSet : EvAppend(vx)
    \/ GlReset
    \/ GlBegin
    \/ GlBall
    \/ GlLoopEnd
    \/ GlAssign
    \/ GlPegs
    \/ GlDraw
    \/ Tick

SpecThreads == InitThreads /\ [][NextThreads]_vars

\* the handler has applied part of its event to the shared state: in every
\* position but "wait" at least one spawn_ball call is still to be completed
PartlyApplied == threads.ev.pc # "wait" /\ threads.ev.applied > 0

\* C4: no step of update() or of the frame's drawing is taken from a state
\* in which the ingestion thread has applied an event in part: the game
\* loop sees none or all of an event's mutations.
C4_FrameSeesWholeEvents ==
    [][(threads'.gl # threads.gl) => ~PartlyApplied]_vars

\* update() rebinds the ball list
Rebinds == threads.gl.pc = "assign" /\ threads'.gl.pc = "pegs"

\* C22: when update() rebinds the ball list, every ball of the old list that
\* has not been scored (it is still active) is in the new list: no ball
\* appended by spawn_ball disappears without being scored.
C22_NoBallLost ==
    [][Rebinds =>
         \A i \in 1..Len(balls) :
            balls[i].active =>
               \E j \in 1..Len(balls') : balls'[j].id = balls[i].id]_vars

\* execute_command subtracts the cost
Debits == threads.ev.pc = "debit" /\ threads'.ev.pc = "message"

\* C24: the cost is subtracted only from a score that is at least the cost at
\* the moment of the subtraction, whatever reset() or update() did since the
\* affordability test, and the subtraction leaves no score negative.
C24_DebitGuarded ==
    [][Debits =>
         /\ ScoreOf(user_scores, threads.ev.user) >= CostOf("msg")
         /\ ScoreOf(user_scores', threads.ev.user) >= 0]_vars

\* ------------------------------------------------------------------- board
\* Building a game: GameConfig(...) runs __post_init__, GameState(config)
\* builds the pegs. SpecBoard tries boards of 1..MaxRows rows with
\* 1..MaxTopPegs pegs in the first row, two widths, and every pairing of a
\* slot_count 0..MaxSlots with a score list of length 0..MaxSlots, next to
\* the default board and the default board with a score missing.
MaxRows == 3
MaxTopPegs == 3
MaxSlots == 2

BoardWidths == {width, width \div 4}

BoardConfigs ==
    { [DefaultConfig EXCEPT !.rows = r, !.top_pegs = t, !.width = w,
                            !.slot_count = n,
                            !.slot_scores = SubSeq(slot_scores, 1, m)] :
        r \in 1..MaxRows, t \in 1..MaxTopPegs, w \in BoardWidths,
        n \in 0..MaxSlots, m \in 0..MaxSlots }
      \cup { DefaultConfig,
             [DefaultConfig EXCEPT
                 !.slot_scores = SubSeq(slot_scores, 1, slot_count - 1)] }

\* no GameConfig has been constructed
NoConfig ==
    [width |-> 0, height |-> 0, peg_radius |-> 0, rows |-> 0, top_pegs |-> 0,
     bottom_margin |-> 0, top_margin |-> 0, slot_count |-> -1,
     slot_scores |-> <<>>]

\* __post_init__ letting a longer score list pass
PostInitOk_AtLeast(c) == Len(c.slot_scores) >= c.slot_count

\* GameConfig.__post_init__ raises no ValueError
PostInitOk(c) == ~(Len(c.slot_scores) # c.slot_count)

\* _create_pegs: number of the pegs of the rows before row
RECURSIVE PegsBefore(_, _)
PegsBefore(c, row) ==
    IF row = 0 THEN 0 ELSE PegsBefore(c, row - 1) + c.top_pegs + (row - 1)

\* the row of the k-th peg appended (k = 1 ..)
RowOfPeg(c, k) ==
    CHOOSE row \in 0..(c.rows - 1) :
        PegsBefore(c, row) < k /\ k <= PegsBefore(c, row + 1)

\* the peg builder starting every row at the left edge of the widest row
CreatePegOf_LeftAligned(c, k) ==
    LET row == RowOfPeg(c, k)
        i == k - PegsBefore(c, row) - 1
        maxp == c.top_pegs + (c.rows - 1)
    IN  [x |-> RoundDiv((2 * i + 2) * c.width * PU, 2 * (maxp + 1)),
         y |-> c.top_margin * PU
                 + RoundDiv(row * (c.height - c.bottom_margin - c.top_margin) * PU,
                            c.rows),
         radius |-> c.peg_radius,
         hit_timer |-> 0]

\* _create_pegs for the board c: the k-th Peg appended
CreatePegOf(c, k) ==
    LET row == RowOfPeg(c, k)
        i == k - PegsBefore(c, row) - 1
        maxp == c.top_pegs + (c.rows - 1)
        pegs_in_row == c.top_pegs + row
    IN  [x |-> RoundDiv((maxp - pegs_in_row + 2 * i + 2) * c.width * PU,
                        2 * (maxp + 1)),
         y |-> c.top_margin * PU
                 + RoundDiv(row * (c.height - c.bottom_margin - c.top_margin) * PU,
                            c.rows),
         radius |-> c.peg_radius,
         hit_timer |-> 0]

\* GameState._create_pegs for the board c
CreatePegsOf(c) == [k \in 1..PegsBefore(c, c.rows) |-> CreatePegOf(c, k)]

InitBoard ==
    /\ balls = <<>>
    /\ pegs = <<>>
    /\ user_scores = <<>>
    /\ sound_events = <<>>
    /\ screen_messages = <<>>
    /\ now = 0
    /\ next_id = 1
    /\ last = Idle
    /\ threads = NoThreads
    /\ config = NoConfig
    /\ events = NoEvents

\* GameConfig(rows=..., top_pegs=..., width=..., slot_count=...,
\* slot_scores=...): the dataclass is built unless __post_init__ raises
NewGameConfig(c) ==
    /\ last = Idle
    /\ config = NoConfig
    /\ config' = IF PostInitOk(c) THEN c ELSE NoConfig
    /\ last' = Call("GameConfig", "", 0, <<>>, PostInitOk(c), <<c>>)
    /\ UNCHANGED <<events, core, now, next_id, threads>>

\* GameState(config)
NewGameState ==
    /\ last = Idle
    /\ config # NoConfig
    /\ pegs = <<>>
    /\ pegs' = CreatePegsOf(config)
    /\ last' = Call("GameState", "", 0, <<>>, TRUE, <<>>)
    /\ UNCHANGED <<balls, user_scores, sound_events, screen_messages, now,
                   next_id, threads, config, events>>

NextBoard ==
    \/ \E c \in BoardConfigs : NewGameConfig(c)
    \/ NewGameState
    \/ Return

SpecBoard == InitBoard /\ [][NextBoard]_vars

\* C11: GameConfig construction fails exactly when the score list's length
\* differs from slot_count, and succeeds otherwise; so the config of every
\* game has len(slot_scores) = slot_count.
C11_ConfigLengthsChecked ==
    /\ [](config # NoConfig => Len(config.slot_scores) = config.slot_count)
    /\ [][(last'.op = "GameConfig") =>
            LET c == last'.top[1]
            IN  /\ last'.ret <=> (Len(c.slot_scores) = c.slot_count)
                /\ (last'.ret => config' = c)
                /\ (~last'.ret => config' = NoConfig)]_vars

\* a score list longer than slot_count was refused
C11_Witness ==
    /\ last.op = "GameConfig"
    /\ ~last.ret
    /\ Len(last.top[1].slot_scores) > last.top[1].slot_count
    /\ config = NoConfig

\* the pegs of row r of the board, in list order
RowPegs(r) ==
    SubSeq(pegs, PegsBefore(config, r) + 1, PegsBefore(config, r + 1))

RECURSIVE SumX(_)
SumX(ps) == IF ps = <<>> THEN 0 ELSE Head(ps).x + SumX(Tail(ps))

RECURSIVE SumRows(_, _)
SumRows(c, r) == IF r < 0 THEN 0 ELSE c.top_pegs + r + SumRows(c, r - 1)

\* C18: for every valid board the builder stores the rows one after
\* another, row r holding top_pegs + r pegs from left to right at one
\* height; the peg count is the sum of top_pegs + r over the rows; and the
\* mean x of each row is width/2 (to the rounding of the position grid:
\* half a unit a peg).
C18_PegRows ==
    (last.op = "GameState") =>
        /\ Len(pegs) = SumRows(config, config.rows - 1)
        /\ \A r \in 0..(config.rows - 1) :
             LET row == RowPegs(r)
                 n == config.top_pegs + r
             IN  /\ Len(row) = n
                 /\ \A i \in 1..n : row[i].y = row[1].y
                 /\ \A i \in 1..(n - 1) : row[i].x < row[i + 1].x
                 /\ r > 0 => RowPegs(r - 1)[1].y < row[1].y
                 /\ Abs(2 * SumX(row) - n * config.width * PU) <= n
        /\ (config = DefaultConfig => pegs = CreatePegs)

\* the default board has been built: 8 rows of 3 to 10 pegs
C18_Witness ==
    /\ last.op = "GameState"
    /\ config = DefaultConfig
    /\ Len(pegs) = 52
    /\ Len(RowPegs(7)) = 10

\* ----------------------------------------------------------------- scoring
\* Balls about to cross the bottom boundary, at abscissae on both sides of
\* every slot edge, at the centre, and far off the board on either side
\* (the board has no walls). SpecScore steps them at 60 frames a second and
\* lets the renderer drain the notifications.
SlotEdges ==
    {(k * width * PU) \div (max_pegs + 1) + d : k \in 0..(max_pegs + 1), d \in {0, 1}}

ScoreXs ==
    SlotEdges \cup {-(8 * width * PU), -1, (width * PU) \div 2, 8 * width * PU}

\* heights from which a ball at rest crosses the boundary in the first and
\* in the second frame
ScoreYs == {BottomY - (VU * TU) \div 4, BottomY - VU * TU}

FallingBall(id, u, x, y) == [NewBall(id, u, 0) EXCEPT !.x = x, !.y = y]

InitScore ==
    /\ \E u1 \in Users, x1 \in ScoreXs, y1 \in ScoreYs :
         \/ balls = <<FallingBall(1, u1, x1, y1)>> /\ next_id = 2
         \/ \E u2 \in Users, x2 \in {0, (width * PU) \div 2}, y2 \in ScoreYs :
              /\ balls = <<FallingBall(1, u1, x1, y1), FallingBall(2, u2, x2, y2)>>
              /\ next_id = 3
    /\ pegs = CreatePegs
    /\ \E s \in {0, slot_scores[2]} :
         user_scores = <<[username |-> "alice", score |-> s],
                         [username |-> "bob", score |-> slot_scores[2]]>>
    /\ sound_events = <<>>
    /\ screen_messages = <<>>
    /\ now = 0
    /\ last = Idle
    /\ threads = NoThreads
    /\ config = DefaultConfig
    /\ events = NoEvents

\* update(1/60) on the balls in play
ScoreFrame == balls # <<>> /\ Update(1)

\* the drain taking the newest notification first
PopAll_NewestFirst(q) == [i \in 1..Len(q) |-> q[Len(q) + 1 - i]]

\* the notifications in the order 'while sound_events: sound_events.pop(0)'
\* takes them
RECURSIVE PopAll(_)
PopAll(q) == IF q = <<>> THEN <<>> ELSE <<Head(q)>> \o PopAll(Tail(q))

\* PygameRenderer._handle_sound_events, the drain of the notification queue
HandleSoundEvents ==
    /\ last = Idle
    /\ sound_events' = <<>>
    /\ last' = Call("handle_sound_events", "", 0, <<>>, FALSE, PopAll(sound_events))
    /\ UNCHANGED <<balls, pegs, user_scores, screen_messages, now, next_id,
                   threads, config, events>>

NextScore ==
    \/ ScoreFrame
    \/ HandleSoundEvents
    \/ Return

SpecScore == InitScore /\ [][NextScore]_vars

\* the balls this frame passes to the scoring routine, in list order
ScoredBalls(dt) == SelectSeq(SteppedBalls(dt), LAMBDA b : ~BelowBottom(b))

\* the slot the rule names for abscissa x: floor((x - slot_width)/slot_width)
\* clamped to 0 .. slot_count - 1, with slot_count = top_pegs + rows - 2 and
\* slot_width = width/(top_pegs + rows); x and the edges compared as
\* multiples of slot_width/(top_pegs + rows)
RuleSlot(x) ==
    LET n == top_pegs + rows - 2
        xs == x * (top_pegs + rows)
        w == width * PU
    IN  CHOOSE j \in 0..(n - 1) :
          \/ j = 0 /\ xs < 2 * w
          \/ j = n - 1 /\ xs >= n * w
          \/ (j + 1) * w <= xs /\ xs < (j + 2) * w

\* C12: a ball scored at abscissa x, on or off the board, earns
\* slot_scores[index] for index = floor((x - slot_width)/slot_width) clamped
\* to [0, slot_count - 1]; at x = width/2 that is the middle slot's 5.
C12_SlotOfAbscissa ==
    [][(last'.op = "update" /\ Len(ScoredBalls(last'.num)) = 1) =>
        LET b == ScoredBalls(last'.num)[1]
            gain == ScoreOf(user_scores', b.username) - ScoreOf(user_scores, b.username)
        IN  /\ gain = slot_scores[RuleSlot(b.x) + 1]
            /\ (2 * b.x = width * PU => gain = 5)]_vars

\* a ball scored at the centre of the board
C12_Witness ==
    /\ last.op = "update"
    /\ Len(last.top) = 1
    /\ sound_events # <<>>
    /\ 2 * sound_events[Len(sound_events)][2] = width * PU
    /\ last.pre.total + 5 = TotalScore(user_scores)

\* the stepped balls of bs that u owns
OwnedBy(bs, u) == SelectSeq(bs, LAMBDA b : b.username = u)

C14_NotificationsFifo ==
    [][/\ (last'.op = "update" =>
             LET gone == ScoredBalls(last'.num)
             IN  /\ Len(sound_events') = Len(sound_events) + Len(gone)
                 /\ SubSeq(sound_events', 1, Len(sound_events)) = sound_events
                 /\ \A i \in 1..Len(gone) :
                      sound_events'[Len(sound_events) + i]
                          = <<"slot_hit", gone[i].x, gone[i].y>>)
       /\ (last'.op = "handle_sound_events" =>
             /\ last'.top = sound_events
             /\ sound_events' = <<>>)]_vars

\* two different notifications, queued by two frames, were drained
C14_Witness ==
    /\ last.op = "handle_sound_events"
    /\ Len(last.top) = 2
    /\ last.top[1][3] < last.top[2][3]
    /\ last.top[1][2] # last.top[2][2]
    /\ sound_events = <<>>

\* -------------------------------------------------------------------- glow
\* One ball among the pegs under frames of uneven length: no time at all,
\* a length that does not divide the glow duration, a third of a second,
\* and one longer than the glow.
GlowDts == {0, 7, TU \div 3, (3 * TU) \div 4}

InitGlow == Init

GlowSpawn(vx) == next_id = 1 /\ SpawnBall("alice", vx)

GlowFrame(dt) == balls # <<>> /\ Update(dt)

NextGlow ==
    \/ \E vx \in VxSet : GlowSpawn(vx)
    \/ \E dt \in GlowDts : GlowFrame(dt)
    \/ Return

SpecGlow == InitGlow /\ [][NextGlow]_vars

\* the pegs after this frame's collisions, before its decay loop
PegsAfterCollisions(dt) ==
    UpdateLoop(balls, 1, dt,
               [active_balls |-> <<>>, pegs |-> pegs, user_scores |-> user_scores,
                sound_events |-> sound_events, scored |-> <<>>]).pegs

\* C15: every peg's hit_timer lies in [0, 0.5 s]; a collision sets it to
\* 0.5 s, update(dt) then lowers each positive timer by dt but not below 0,
\* and a timer at 0 stays 0 unless the frame's collisions hit the peg; only
\* update changes the pegs.
C15_HitTimerRange ==
    /\ [](\A k \in 1..Len(pegs) :
            pegs[k].hit_timer >= 0 /\ pegs[k].hit_timer <= GlowDuration)
    /\ [][/\ (pegs' # pegs => last'.op = "update")
           /\ (last'.op = "update" =>
                 \A mid \in {PegsAfterCollisions(last'.num)}, dt \in {last'.num} :
                     \A k \in 1..Len(pegs) :
                       /\ mid[k].hit_timer \in {pegs[k].hit_timer, GlowDuration}
                       /\ mid[k].hit_timer > dt =>
                             pegs'[k].hit_timer = mid[k].hit_timer - dt
                       /\ mid[k].hit_timer <= dt => pegs'[k].hit_timer = 0
                       /\ [pegs'[k] EXCEPT !.hit_timer = 0]
                             = [pegs[k] EXCEPT !.hit_timer = 0])]_vars

\* a frame shorter than the glow has hit one peg while an earlier hit on
\* another is fading with less than that frame's length left
C15_Witness ==
    /\ last.op = "update"
    /\ last.num > 0
    /\ \E k, j \in 1..Len(pegs) :
         /\ k # j
         /\ pegs[k].hit_timer = GlowDuration - last.num
         /\ pegs[j].hit_timer > 0
         /\ pegs[j].hit_timer < last.num

\* ------------------------------------------------------------------- spawn
\* C19: spawn_ball(username) appends one ball of username at x = width/2,
\* y = top_margin - 40 with vy = 0 and vx within [-40, 40] px/s behind the
\* balls in play, which stay as they are; a new user enters the ledger with
\* score 0, a known user's record and everyone else's stay as they are; the
\* pegs and the notification queue are untouched.
C19_SpawnFrame ==
    [][(last'.op = "spawn_ball") =>
        LET u == last'.user
            new == balls'[Len(balls')]
        IN  /\ Len(balls') = Len(balls) + 1
            /\ SubSeq(balls', 1, Len(balls)) = balls
            /\ new.username = u
            /\ 2 * new.x = width * PU
            /\ new.y = (top_margin - 40) * PU
            /\ new.vy = 0
            /\ new.vx >= -(40 * VU) /\ new.vx <= 40 * VU
            /\ new.active
            /\ IF \E i \in 1..Len(user_scores) : user_scores[i].username = u
               THEN user_scores' = user_scores
               ELSE user_scores' = Append(user_scores, [username |-> u, score |-> 0])
            /\ UNCHANGED <<pegs, sound_events>>]_vars

\* a ball spawned for a user who holds points, with a notification queued
C19_Witness ==
    /\ last.op = "spawn_ball"
    /\ \E i \in 1..Len(user_scores) :
         user_scores[i].username = last.user /\ user_scores[i].score > 0
    /\ sound_events # <<>>
    /\ balls # <<>>
    /\ balls[Len(balls)].username = last.user

\* --------------------------------------------------------------- collision
\* _handle_collisions as a function of the ball: the inputs are balls placed
\* around a peg of the board, the centre of the peg included
CollidePegs == {1, 5}
CollideOffsets == {-(20 * PU), -(7 * PU) - 1, 0, 1, 3 * PU, 12 * PU, 26 * PU}
CollideVxSet == {-(30 * VU), 0, 20 * VU}
CollideVySet == {0, 300 * VU}
CollideDts == {1, TU \div 4}

CollideBall(k, ox, oy, vx, vy) ==
    [NewBall(1, "alice", vx) EXCEPT !.x = CreatePeg(k).x + ox,
                                    !.y = CreatePeg(k).y + oy,
                                    !.vy = vy]

InitCollide ==
    /\ \E k \in CollidePegs, ox \in CollideOffsets, oy \in CollideOffsets,
          vx \in CollideVxSet, vy \in CollideVySet :
         balls = <<CollideBall(k, ox, oy, vx, vy)>>
    /\ pegs = CreatePegs
    /\ user_scores = <<[username |-> "alice", score |-> 0]>>
    /\ sound_events = <<>>
    /\ screen_messages = <<>>
    /\ now = 0
    /\ next_id = 2
    /\ last = Idle
    /\ threads = NoThreads
    /\ config = DefaultConfig
    /\ events = NoEvents

\* GameState._handle_collisions(ball) on the ball as placed; top keeps the
\* ball the call was given
HandleCollisionsCall ==
    /\ last = Idle
    /\ balls # <<>>
    /\ \A k \in 1..Len(pegs) : pegs[k].hit_timer = 0
    /\ LET c == HandleCollisions(balls[1], pegs, 1)
       IN  /\ balls' = <<c.ball>>
           /\ pegs' = c.pegs
    /\ last' = Call("_handle_collisions", balls[1].username, 0, <<>>, FALSE,
                     <<balls[1]>>)
    /\ UNCHANGED <<events, config, user_scores, sound_events, screen_messages, now,
                   next_id, threads>>

\* the frame that follows the resolution of a collision
CollideFrame(dt) ==
    /\ balls # <<>>
    /\ \E k \in 1..Len(pegs) : pegs[k].hit_timer = GlowDuration
    /\ Update(dt)

NextCollide ==
    \/ HandleCollisionsCall
    \/ \E dt \in CollideDts : CollideFrame(dt)
    \/ Return

SpecCollide == InitCollide /\ [][NextCollide]_vars

\* squared distance of the centres, and the reach of ball and peg
Dist2(b, peg) == (b.x - peg.x) * (b.x - peg.x) + (b.y - peg.y) * (b.y - peg.y)
Reach(b, peg) == (b.radius + peg.radius) * PU
Within(b, peg) ==
    Abs(b.x - peg.x) < Reach(b, peg) /\ Abs(b.y - peg.y) < Reach(b, peg)
Centred(b, peg) == b.x = peg.x /\ b.y = peg.y
Overlapping(b, peg) ==
    Within(b, peg) /\ Dist2(b, peg) < Reach(b, peg) * Reach(b, peg)
\* centres apart by the radii sum, to the rounding of one position unit
Apart(b, peg) ==
    Within(b, peg) => Dist2(b, peg) >= (Reach(b, peg) - 1) * (Reach(b, peg) - 1)

\* C16 as stated: after the resolution of a ball that overlaps a peg the
\* centres are at least ball.radius + peg.radius apart and the peg's
\* hit_timer is 0.5 s.
C16_NoResidualOverlap ==
    [][(last'.op = "_handle_collisions") =>
        \A k \in 1..Len(pegs) :
            Overlapping(balls[1], pegs[k]) =>
                /\ Apart(balls'[1], pegs'[k])
                /\ pegs'[k].hit_timer = GlowDuration]_vars

\* C16 amended: after the resolution of a ball that overlaps a peg the peg's
\* hit_timer is 0.5 s; the centres are at least ball.radius + peg.radius
\* apart (to the rounding of the arithmetic) when they did not coincide,
\* and still coincide when they did.
C16_ResolvedUnlessCentred ==
    [][(last'.op = "_handle_collisions") =>
        \A k \in 1..Len(pegs) :
            Overlapping(balls[1], pegs[k]) =>
                /\ pegs'[k].hit_timer = GlowDuration
                /\ IF ~Centred(balls[1], pegs[k])
                   THEN Apart(balls'[1], pegs'[k])
                   ELSE Centred(balls'[1], pegs'[k])]_vars

\* a ball that overlapped a peg off its centre has been pushed out of it
C16_Witness ==
    /\ last.op = "_handle_collisions"
    /\ \E k \in 1..Len(pegs) :
         /\ Overlapping(last.top[1], pegs[k])
         /\ ~Centred(last.top[1], pegs[k])
         /\ balls[1] # last.top[1]
         /\ Apart(balls[1], pegs[k])
         /\ pegs[k].hit_timer = GlowDuration

\* C17: when the ball's centre is on the peg's centre, the resolution leaves
\* the ball where it is and does not reflect its velocity (it is damped, in
\* the same direction), and the next frame moves the ball on as usual: it
\* stays in play and leaves the peg.
C17_CentredBall ==
    /\ [][(last'.op = "_handle_collisions") =>
            \A k \in 1..Len(pegs) :
                Centred(balls[1], pegs[k]) =>
                    /\ balls'[1].x = balls[1].x
                    /\ balls'[1].y = balls[1].y
                    /\ balls'[1].vx = RoundDiv(balls[1].vx * damping_pct, 100)
                    /\ balls'[1].vy = RoundDiv(balls[1].vy * damping_pct, 100)]_vars
    /\ [][(last'.op = "update") =>
            \A k \in 1..Len(pegs) :
                Centred(balls[1], pegs[k]) =>
                    /\ Len(balls') = 1
                    /\ balls'[1].active
                    /\ Apart(balls'[1], pegs'[k])]_vars

\* a moving ball resolved on a peg's centre, and the frame after it
C17_Witness ==
    /\ last.op = "_handle_collisions"
    /\ \E k \in 1..Len(pegs) :
         /\ Centred(last.top[1], pegs[k])
         /\ Centred(balls[1], pegs[k])
         /\ pegs[k].hit_timer = GlowDuration
    /\ last.top[1].vx # 0
    /\ last.top[1].vy > 0
    /\ balls[1].vy > 0

\* ---------------------------------------------------------------- messages
\* The message queue under a running clock: alice holds the points of three
\* messages, comments arrive while the clock runs, frames keep running.
MsgClockEnd == 9
MsgStartScore == 3 * MsgCost
MsgTexts == { <<"m", "s", "g", " ", "a">>, <<"h", "o", "l", "a">> }

InitMessages ==
    /\ balls = <<>>
    /\ pegs = CreatePegs
    /\ user_scores = <<[username |-> "alice", score |-> MsgStartScore]>>
    /\ sound_events = <<>>
    /\ screen_messages = <<>>
    /\ now = 0
    /\ next_id = 1
    /\ last = Idle
    /\ threads = NoThreads
    /\ config = DefaultConfig
    /\ events = NoEvents

\* time.time() moves on by a second
Elapse ==
    /\ now < MsgClockEnd
    /\ now' = now + 1
    /\ UNCHANGED <<events, config, core, next_id, last, threads>>

\* a comment of alice, early enough for its message to run out on the clock
MsgComment(c) ==
    /\ now + MsgDuration <= MsgClockEnd
    /\ ProcessComment("alice", c)

\* one frame of the game loop
MsgFrame == \E dt \in DtSet : Update(dt)

NextMessages ==
    \/ Elapse
    \/ \E c \in MsgTexts : MsgComment(c)
    \/ MsgFrame
    \/ Return

\* the clock runs, calls return, and the game loop keeps making frames
\* however many comments arrive in between
SpecMessages ==
    /\ InitMessages
    /\ [][NextMessages]_vars
    /\ WF_vars(Elapse)
    /\ WF_vars(Return)
    /\ SF_vars(MsgFrame)

\* the positions of the messages still running at the clock, and the j-th
Running(msgs, t) == {i \in 1..Len(msgs) : t - msgs[i].timestamp < msgs[i].duration}
NthRunning(msgs, t, j) ==
    CHOOSE i \in Running(msgs, t) :
        Cardinality({h \in Running(msgs, t) : h <= i}) = j
HasMessageOf(t) ==
    \E i \in 1..Len(screen_messages) : screen_messages[i].timestamp = t

\* C20: each update drops exactly the messages whose time since creation is
\* at least their duration and keeps the others in their order; with frames
\* running, a queued message is eventually removed.
C20_MessagesExpire ==
    /\ [][(last = Idle /\ last'.op = "update") =>
            /\ Len(screen_messages') = Cardinality(Running(screen_messages, now))
            /\ \A j \in 1..Len(screen_messages') :
                 screen_messages'[j]
                     = screen_messages[NthRunning(screen_messages, now, j)]]_vars
    /\ \A t \in 0..MsgClockEnd : HasMessageOf(t) ~> ~HasMessageOf(t)

\* a frame that dropped a message that had run out and kept a younger one
C20_Witness ==
    /\ last.op = "update"
    /\ last.pre.msgs >= 2
    /\ Len(screen_messages) = 1
    /\ now - screen_messages[1].timestamp > 0
    /\ now - screen_messages[1].timestamp < screen_messages[1].duration

\* ------------------------------------------------------------------ events
\* The handlers of EventCoordinator, each called from the _emit_* method
\* of the event source once the callbacks are registered.
MaxStarts == 2
MaxEmits == 3
BALLS_PER_DONATION == 5
BonusStep == 10
BonusMax == 10
\* amounts in hundredths of the currency unit
Cents == 100
DonationAmounts == {0, 999, 1000, 2500, 10000, 25000}
EventUsers == {"alice", "bob"}
EventVxSet == {20 * VU}
EventTexts ==
    { <<>>, <<"h", "o", "l", "a">>, <<"m", "s", "g", " ", "a">> }

\* n consecutive spawn_ball(u) calls: the balls appended
RECURSIVE SpawnBalls(_, _, _, _, _)
SpawnBalls(bs, u, n, vx, id) ==
    IF n = 0 THEN bs
    ELSE SpawnBalls(Append(bs, NewBall(id, u, vx)), u, n - 1, vx, id + 1)

\* the comment handler spawning nothing once a command went through
CommentBalls_UnlessCommand(ret) == IF ret THEN 0 ELSE BALLS_PER_COMMENT

\* _handle_comment: range(app_config.BALLS_PER_COMMENT), whatever
\* process_comment returned
CommentBalls(ret) == BALLS_PER_COMMENT

\* the bonus of a donation without its cap
DonationBalls_Uncapped(a) == BALLS_PER_DONATION + a \div (BonusStep * Cents)

\* _handle_donation: base_balls + min(int(amount / 10), 10)
DonationBalls(a) == BALLS_PER_DONATION + Min(a \div (BonusStep * Cents), BonusMax)

\* EventSource._emit_follow: _on_follow_cb, then every entry of
\* _follow_callbacks
FollowCalls(ev) == (IF ev.registered THEN 1 ELSE 0) + ev.follow_callbacks

InitEvents ==
    /\ balls = <<>>
    /\ pegs = CreatePegs
    /\ user_scores = <<[username |-> "alice", score |-> MsgStartScore]>>
    /\ sound_events = <<>>
    /\ screen_messages = <<>>
    /\ now = 0
    /\ next_id = 1
    /\ last = Idle
    /\ threads = NoThreads
    /\ config = DefaultConfig
    /\ events = NoEvents

\* the balls spawned so far
Emitted == next_id - 1

\* EventCoordinator._register_callbacks, called by an effective start()
RegisterCallbacks ==
    /\ last = Idle
    /\ events.follow_callbacks < MaxStarts
    /\ events' = [events EXCEPT !.registered = TRUE,
                                !.follow_callbacks = @ + 1]
    /\ last' = Call("_register_callbacks", "", 0, <<>>, FALSE, <<>>)
    /\ UNCHANGED <<config, core, now, next_id, threads>>

\* the state after n spawn_ball(u) calls of a handler
SpawnMany(op, u, num, text, ret, n, vx, us) ==
    /\ balls' = SpawnBalls(balls, u, n, vx, next_id)
    /\ next_id' = next_id + n
    /\ user_scores' = IF n > 0 THEN Register(us, u) ELSE us
    /\ last' = Call(op, u, num, text, ret, <<>>)

\* EventCoordinator._handle_comment(username, avatar_url, comment)
HandleComment(u, c, vx) ==
    LET r == IF c # <<>>
             THEN ProcessCommentResult(u, c, user_scores, screen_messages, now)
             ELSE [ret |-> FALSE, user_scores |-> user_scores,
                   screen_messages |-> screen_messages]
    IN  /\ last = Idle
        /\ Emitted < MaxEmits
        /\ events.registered
        /\ screen_messages' = r.screen_messages
        /\ SpawnMany("_handle_comment", u, 0, c, r.ret, CommentBalls(r.ret), vx,
                     r.user_scores)
        /\ UNCHANGED <<config, events, pegs, sound_events, now, threads>>

\* EventSource._emit_like / _emit_share -> _handle_like / _handle_share
EmitPlain(kind, u, vx) ==
    /\ last = Idle
    /\ Emitted < MaxEmits
    /\ SpawnMany("_emit_" \o kind, u, 0, <<>>, FALSE,
                 IF events.registered THEN BallsPer(kind) ELSE 0, vx, user_scores)
    /\ UNCHANGED <<config, events, pegs, sound_events, screen_messages, now,
                   threads>>

\* EventSource._emit_follow -> _handle_follow, once for every call made
EmitFollow(u, vx) ==
    /\ last = Idle
    /\ Emitted < MaxEmits
    /\ SpawnMany("_emit_follow", u, 0, <<>>, FALSE,
                 FollowCalls(events) * BALLS_PER_FOLLOW, vx, user_scores)
    /\ UNCHANGED <<config, events, pegs, sound_events, screen_messages, now,
                   threads>>

\* EventSource._emit_donation -> _handle_donation(username, amount)
EmitDonation(u, a, vx) ==
    /\ last = Idle
    /\ Emitted < MaxEmits
    /\ SpawnMany("_emit_donation", u, a, <<>>, FALSE,
                 IF events.registered THEN DonationBalls(a) ELSE 0, vx, user_scores)
    /\ sound_events' = IF events.registered
                       THEN Append(sound_events, <<"donation", a>>)
                       ELSE sound_events
    /\ UNCHANGED <<config, events, pegs, screen_messages, now, threads>>

NextEvents ==
    \/ RegisterCallbacks
    \/ \E u \in EventUsers, vx \in EventVxSet, c \in EventTexts :
         HandleComment(u, c, vx)
    \/ \E u \in EventUsers, vx \in EventVxSet, kind \in {"like", "share"} :
         EmitPlain(kind, u, vx)
    \/ \E u \in EventUsers, vx \in EventVxSet : EmitFollow(u, vx)
    \/ \E u \in EventUsers, vx \in EventVxSet, a \in DonationAmounts :
         EmitDonation(u, a, vx)
    \/ Return

SpecEvents == InitEvents /\ [][NextEvents]_vars

\* the balls a call has appended
NewBalls == SubSeq(balls', Len(balls) + 1, Len(balls'))
SpawnedFor(u, n) ==
    /\ Len(balls') = Len(balls) + n
    /\ SubSeq(balls', 1, Len(balls)) = balls
    /\ \A i \in 1..Len(NewBalls) : NewBalls[i].username = u

\* C21: _handle_comment spawns BALLS_PER_COMMENT balls for the commenting
\* user whether the comment is empty, no command, a command that fails or a
\* command that succeeds; the command's outcome is that of process_comment
\* on the state before the balls are spawned.
C21_CommentAlwaysSpawns ==
    [][(last'.op = "_handle_comment") =>
        LET u == last'.user
            r == ProcessCommentResult(u, last'.text, user_scores,
                                      screen_messages, now)
        IN  /\ SpawnedFor(u, BALLS_PER_COMMENT)
            /\ last'.text # <<>> =>
                 /\ last'.ret = r.ret
                 /\ screen_messages' = r.screen_messages
                 /\ user_scores' = Register(r.user_scores, u)]_vars

\* a command of a user with points went through and the ball was spawned
C21_Witness ==
    /\ last.op = "_handle_comment"
    /\ last.ret
    /\ last.pre.msgs < Len(screen_messages)
    /\ last.pre.balls + BALLS_PER_COMMENT = Len(balls)
    /\ TotalScore(user_scores) = last.pre.total - MsgCost

\* C25: once the callbacks are registered, a follow event spawns exactly
\* BALLS_PER_FOLLOW balls for its user, as like and share events spawn
\* BALLS_PER_LIKE and BALLS_PER_SHARE.
C25_FollowSpawnsConfiguredCount ==
    [][events.registered =>
        /\ (last'.op = "_emit_follow" => SpawnedFor(last'.user, BALLS_PER_FOLLOW))
        /\ (last'.op = "_emit_like" => SpawnedFor(last'.user, BALLS_PER_LIKE))
        /\ (last'.op = "_emit_share" => SpawnedFor(last'.user, BALLS_PER_SHARE))]_vars

\* what the code does instead: a follow spawns BALLS_PER_FOLLOW balls for
\* the callback and for every registration made
FollowSpawnsPerRegistration ==
    [][(last'.op = "_emit_follow" /\ events.registered) =>
        SpawnedFor(last'.user,
                   (1 + events.follow_callbacks) * BALLS_PER_FOLLOW)]_vars

MaxGenerated == 2
\* positional arguments _emit_comment takes after self, and those run() passes
EmitCommentParams == 2
RunCommentArgs == 3

\* asyncio.new_event_loop() with Thread(target=_start_event_loop) started
\* and run_coroutine_threadsafe(event_source.run(), loop) called: ready is
\* the loop's queue of callbacks
NewLoop ==
    [ready |-> <<"run">>, stopping |-> FALSE, thread |-> "alive", task |-> "none"]

CurrentLoop == Len(events.loops)
AliveThreads ==
    Cardinality({i \in 1..Len(events.loops) : events.loops[i].thread # "dead"})

\* one callback of the ready queue run by the loop; st holds the loop, the
\* source and the callbacks scheduled meanwhile
RunHandle(h, st) ==
    CASE h = "run" ->
           \* ensure_future(event_source.run()): the task's first step is scheduled
           [st EXCEPT !.loop.task = "scheduled", !.later = Append(@, "run_step")]
      [] h = "run_step" ->
           \* run() up to its first await asyncio.sleep(interval)
           [st EXCEPT !.source.running = TRUE, !.loop.task = "sleeping"]
      [] h = "wake" ->
           \* run() after the sleep: the event is drawn and _emit_comment called
           IF ~st.source.running
           THEN [st EXCEPT !.loop.task = "done"]
           ELSE IF RunCommentArgs <= EmitCommentParams
           THEN [st EXCEPT !.source.generated = @ + 1,
                           !.source.delivered = @ + 1,
                           !.loop.task = "sleeping"]
           ELSE [st EXCEPT !.source.generated = @ + 1, !.loop.task = "failed"]
      [] h = "stop" ->
           \* ensure_future(event_source.stop())
           [st EXCEPT !.later = Append(@, "stop_step")]
      [] h = "stop_step" ->
           \* DummyEventSource.stop()
           [st EXCEPT !.source.running = FALSE, !.source.stops = @ + 1]
      [] h = "loop_stop" ->
           [st EXCEPT !.loop.stopping = TRUE]

RECURSIVE RunHandles(_, _)
RunHandles(hs, st) ==
    IF hs = <<>> THEN st ELSE RunHandles(Tail(hs), RunHandle(Head(hs), st))

\* BaseEventLoop._run_once inside run_forever: the callbacks ready at its
\* beginning are run, those they schedule wait for the next turn; the loop
\* halts after the turn that ran loop.stop
LoopRunOnce(i) ==
    LET lp == events.loops[i]
        st == RunHandles(lp.ready,
                         [loop |-> [lp EXCEPT !.ready = <<>>],
                          source |-> events.source, later |-> <<>>])
    IN  /\ lp.thread = "alive"
        /\ lp.ready # <<>>
        /\ events' = [events EXCEPT
                        !.source = st.source,
                        !.loops[i] = [st.loop EXCEPT
                                        !.ready = st.later,
                                        !.thread = IF st.loop.stopping
                                                   THEN "dead" ELSE "alive"]]
        /\ UNCHANGED <<config, core, now, next_id, last, threads>>

\* the timer of asyncio.sleep(interval) runs out
TimerFires(i) ==
    LET lp == events.loops[i]
    IN  /\ lp.thread = "alive"
        /\ lp.task = "sleeping"
        /\ events.source.generated < MaxGenerated
        /\ events' = [events EXCEPT !.loops[i].task = "waking",
                                    !.loops[i].ready = Append(@, "wake")]
        /\ UNCHANGED <<config, core, now, next_id, last, threads>>

\* a handler called in the loop thread by a source whose run() is under
\* way (as the handlers of TikTokEventSource's client are) enters
\* spawn_ball's _load_avatar: urlopen(request, timeout=10)
LoopBlocks(i) ==
    /\ events.loops[i].thread = "alive"
    /\ events.loops[i].task = "sleeping"
    /\ events.registered
    /\ Emitted < MaxEmits
    /\ events' = [events EXCEPT !.loops[i].thread = "busy"]
    /\ UNCHANGED <<config, core, now, next_id, last, threads>>

\* the download ends, _handle_like spawns its ball and returns to the loop
LoopUnblocks(i, u, vx) ==
    /\ events.loops[i].thread = "busy"
    /\ balls' = SpawnBalls(balls, u, BALLS_PER_LIKE, vx, next_id)
    /\ next_id' = next_id + BALLS_PER_LIKE
    /\ user_scores' = Register(user_scores, u)
    /\ events' = [events EXCEPT !.loops[i].thread = "alive"]
    /\ UNCHANGED <<config, pegs, sound_events, screen_messages, now, last, threads>>

\* EventCoordinator.start()
CoordStart ==
    /\ last = Idle
    /\ events.pc = "idle"
    /\ events.starts < MaxStarts
    /\ IF events.running
       THEN /\ last' = Call("start", "", 0, <<>>, FALSE, <<>>)
            /\ UNCHANGED events
       ELSE /\ last' = Call("start", "", 0, <<>>, TRUE, <<>>)
            /\ events' = [events EXCEPT
                            !.running = TRUE,
                            !.registered = TRUE,
                            !.follow_callbacks = @ + 1,
                            !.starts = @ + 1,
                            !.loops = Append(@, NewLoop)]
    /\ UNCHANGED <<config, core, now, next_id, threads>>

\* EventCoordinator.stop() up to run_coroutine_threadsafe(source.stop(), loop)
CoordStopBegin ==
    /\ last = Idle
    /\ events.pc = "idle"
    /\ IF ~events.running
       THEN /\ last' = Call("stop", "", 0, <<>>, FALSE, <<>>)
            /\ UNCHANGED events
       ELSE /\ last' = last
            /\ events' = [events EXCEPT
                            !.running = FALSE,
                            !.stop_calls = @ + 1,
                            !.pc = "halt",
                            !.loops[CurrentLoop].ready = Append(@, "stop")]
    /\ UNCHANGED <<config, core, now, next_id, threads>>

\* stop(): self.loop.call_soon_threadsafe(self.loop.stop)
CoordStopHalt ==
    /\ events.pc = "halt"
    /\ events' = [events EXCEPT !.pc = "join",
                                !.loops[CurrentLoop].ready = Append(@, "loop_stop")]
    /\ UNCHANGED <<config, core, now, next_id, last, threads>>

\* stop(): self.thread.join(timeout=5.0) returns, the thread having ended
CoordStopJoin ==
    /\ events.pc = "join"
    /\ events.loops[CurrentLoop].thread = "dead"
    /\ events' = [events EXCEPT !.pc = "idle"]
    /\ last' = Call("stop", "", 0, <<>>, TRUE, <<>>)
    /\ UNCHANGED <<config, core, now, next_id, threads>>

\* stop(): self.thread.join(timeout=5.0) returns after the five seconds,
\* the thread being held in a handler
CoordStopJoinTimeout ==
    /\ events.pc = "join"
    /\ events.loops[CurrentLoop].thread = "busy"
    /\ events' = [events EXCEPT !.pc = "idle"]
    /\ last' = Call("stop", "", 0, <<>>, TRUE, <<"timeout">>)
    /\ UNCHANGED <<config, core, now, next_id, threads>>

InitCoord == Init

NextCoord ==
    \/ CoordStart
    \/ CoordStopBegin
    \/ CoordStopHalt
    \/ CoordStopJoin
    \/ CoordStopJoinTimeout
    \/ \E i \in 1..Len(events.loops) : LoopRunOnce(i)
    \/ \E i \in 1..Len(events.loops) : TimerFires(i)
    \/ \E i \in 1..Len(events.loops) : LoopBlocks(i)
    \/ \E i \in 1..Len(events.loops), u \in ThreadUsers, vx \in EventVxSet :
         LoopUnblocks(i, u, vx)
    \/ Return

SpecCoord == InitCoord /\ [][NextCoord]_vars

\* C27: start() on a running coordinator and stop() on one that is not
\* running change nothing; at most one event-loop thread is alive at a time,
\* _running is True exactly between a start and the next stop, and the
\* callbacks are registered once per effective start.
C27_StartStopIdempotent ==
    /\ [](/\ AliveThreads <= 1
          /\ events.running <=> (events.starts = events.stop_calls + 1)
          /\ ~events.running <=> (events.starts = events.stop_calls)
          /\ events.follow_callbacks = events.starts)
    /\ [][(last = Idle /\ last'.op \in {"start", "stop"} /\ ~last'.ret)
            => UNCHANGED events]_vars

\* the part of C27 the code keeps: the guards of start() and stop()
StartStopGuards ==
    /\ [](/\ events.running <=> (events.starts = events.stop_calls + 1)
          /\ ~events.running <=> (events.starts = events.stop_calls)
          /\ events.follow_callbacks = events.starts
          /\ Len(events.loops) = events.starts)
    /\ [][/\ (last = Idle /\ last'.op \in {"start", "stop"} /\ ~last'.ret)
               => UNCHANGED events
          /\ (last = Idle /\ last'.op = "start") => (last'.ret <=> ~events.running)]_vars

\* C28: a loop that has halted has run the source's stop() to its end: no
\* stop() scheduled on it is still pending.
C28_SourceStoppedBeforeHalt ==
    \A i \in 1..Len(events.loops) :
        events.loops[i].thread = "dead" =>
            /\ "stop" \notin {events.loops[i].ready[k] : k \in 1..Len(events.loops[i].ready)}
            /\ "stop_step" \notin {events.loops[i].ready[k] : k \in 1..Len(events.loops[i].ready)}

\* C30: every event run() has generated has reached the comment callback,
\* and the task of run() has not ended while the source is running.
C30_EveryEventDelivered ==
    /\ events.source.delivered = events.source.generated
    /\ \A i \in 1..Len(events.loops) : events.loops[i].task # "failed"

\* -------------------------------------------------------------------- race
\* The two writers of a score: execute_command's 'score -= cost' in the
\* ingestion thread and _handle_ball_scored's 'score += points' in the
\* game-loop thread. Each is a read of the attribute, an arithmetic
\* operation and a write of the attribute; nothing orders the two threads,
\* so the other thread may run between the read and the write (an
\* interpreter that switches only at calls runs the two steps back to back,
\* which is one of the interleavings). RaceLedger is the bookkeeping the
\* claim speaks of: the points credited and the costs debited since the
\* last reset.
MaxDebits == 2
MaxCredits == 2

RaceUser == "alice"

\* abscissas of a ball at the bottom: the leftmost slot and the middle slot
RaceXs == {0, (width * PU) \div 2}

RaceBall(x) == [NewBall(0, RaceUser, 0) EXCEPT !.x = x, !.y = BottomY]

RaceLedger(credits, debits) == [credits |-> credits, debits |-> debits]

\* RaceUser's balls have scored MsgStartScore points since the last reset
InitRace ==
    /\ balls = <<>>
    /\ pegs = CreatePegs
    /\ user_scores = <<[username |-> RaceUser, score |-> MsgStartScore]>>
    /\ sound_events = <<>>
    /\ screen_messages = <<>>
    /\ now = 0
    /\ next_id = 1
    /\ last = Idle
    /\ threads = [ev |-> [pc |-> "wait", reg |-> 0, seen |-> 0],
                  gl |-> [pc |-> "idle", reg |-> 0, x |-> 0, frames |-> 0],
                  ledger |-> RaceLedger(MsgStartScore, 0)]
    /\ config = DefaultConfig
    /\ events = NoEvents

\* process_comment(RaceUser, "msg a"): execute_command's affordability test
RaceTest ==
    /\ threads.ev.pc = "wait"
    /\ threads.ev.seen < MaxDebits
    /\ threads' = [threads EXCEPT
                     !.ev.seen = @ + 1,
                     !.ev.pc = IF CanAffordCommand(RaceUser, "msg", user_scores)
                               THEN "load" ELSE "wait"]
    /\ UNCHANGED <<events, config, core, now, next_id, last>>

\* score -= cost: the attribute is read
RaceDebitLoad ==
    /\ threads.ev.pc = "load"
    /\ threads' = [threads EXCEPT !.ev.pc = "store",
                                  !.ev.reg = ScoreOf(user_scores, RaceUser)]
    /\ UNCHANGED <<events, config, core, now, next_id, last>>

\* score -= cost: the difference is written, then _execute_msg_command
\* appends the message
RaceDebitStore ==
    /\ threads.ev.pc = "store"
    /\ user_scores' = [user_scores EXCEPT
                         ![IndexOf(user_scores, RaceUser)].score =
                            threads.ev.reg - CostOf("msg")]
    /\ screen_messages' =
         Append(screen_messages, NewScreenMessage(RaceUser, <<"a">>, now))
    /\ threads' = [threads EXCEPT !.ev.pc = "wait", !.ev.reg = 0,
                                  !.ledger.debits = @ + CostOf("msg")]
    /\ UNCHANGED <<events, config, balls, pegs, sound_events, now, next_id, last>>

\* update(): a ball of RaceUser has reached the bottom at abscissa x;
\* _handle_ball_scored reads the score for 'score += points'
RaceCreditLoad(x) ==
    /\ threads.gl.pc = "idle"
    /\ threads.gl.frames < MaxCredits
    /\ threads' = [threads EXCEPT
                     !.gl = [pc |-> "store",
                             reg |-> ScoreOf(user_scores, RaceUser),
                             x |-> x, frames |-> threads.gl.frames + 1]]
    /\ UNCHANGED <<events, config, core, now, next_id, last>>

\* score += points: the sum is written, then the notification is queued
RaceCreditStore ==
    /\ threads.gl.pc = "store"
    /\ user_scores' = [user_scores EXCEPT
                         ![IndexOf(user_scores, RaceUser)].score =
                            threads.gl.reg + SlotPoints(threads.gl.x)]
    /\ sound_events' =
         Append(sound_events, <<"slot_hit", threads.gl.x, BottomY>>)
    /\ threads' = [threads EXCEPT
                     !.gl.pc = "idle", !.gl.reg = 0, !.gl.x = 0,
                     !.ledger.credits = @ + SlotPoints(threads.gl.x)]
    /\ UNCHANGED <<events, config, balls, pegs, screen_messages, now, next_id, last>>

\* renderer.draw() after update(): the notifications are popped
RaceDraw ==
    /\ threads.gl.pc = "idle"
    /\ sound_events # <<>>
    /\ sound_events' = <<>>
    /\ UNCHANGED <<events, config, balls, pegs, user_scores, screen_messages, now,
                   next_id, last, threads>>

\* _handle_keydown on K_r, between two frames: GameState.reset()
RaceReset ==
    /\ threads.gl.pc = "idle"
    /\ threads.ledger # RaceLedger(0, 0)
    /\ balls' = <<>>
    /\ user_scores' = ResetScores(user_scores)
    /\ sound_events' = <<>>
    /\ threads' = [threads EXCEPT !.ledger = RaceLedger(0, 0)]
    /\ UNCHANGED <<events, config, pegs, screen_messages, now, next_id, last>>

NextRace ==
    \/ RaceTest
    \/ RaceDebitLoad
    \/ RaceDebitStore
    \/ \E x \in RaceXs : RaceCreditLoad(x)
    \/ RaceCreditStore
    \/ RaceDraw
    \/ RaceReset

SpecRace == InitRace /\ [][NextRace]_vars

\* C23: the score of a user is the points credited to the user since the
\* last reset minus the costs of the user's successful commands since the
\* last reset.
C23_NoUpdateLost ==
    ScoreOf(user_scores, RaceUser) = threads.ledger.credits - threads.ledger.debits

\* ----------------------------------------------------------------- effects
\* One iteration of GameApp._game_loop: update(dt), then renderer.draw(),
\* whose _handle_sound_events pops the notifications and walks the pegs for
\* the peg-hit effect. The renderer keeps its flag sound_played on the Peg
\* objects; a peg without the attribute is a peg whose flag is False.
EffectsClockEnd == 16
EffectWindow == (5 * TU) \div 100

\* frames of 1/60 s, 1/30 s and 1/15 s
EffectDts == {1, 2, 4}

EffectPeg == 1
EffectOffsets == {0, 3 * PU}
EffectVySet == {0, 300 * VU}

WithFlag(peg, flag) ==
    [f \in DOMAIN peg \cup {"sound_played"} |->
        IF f = "sound_played" THEN flag ELSE peg[f]]

\* a ball of alice just above the peg, falling onto it
InitEffects ==
    /\ \E ox \in EffectOffsets, vy \in EffectVySet :
         balls = <<CollideBall(EffectPeg, ox,
                               -((ball_radius + peg_radius) * PU) - 1, 0, vy)>>
    /\ pegs = [k \in 1..PegCount |-> WithFlag(CreatePeg(k), FALSE)]
    /\ user_scores = <<[username |-> "alice", score |-> 0]>>
    /\ sound_events = <<>>
    /\ screen_messages = <<>>
    /\ now = 0
    /\ next_id = 2
    /\ last = Idle
    /\ threads = NoThreads
    /\ config = DefaultConfig
    /\ events = NoEvents

\* the pegs _handle_collisions has hit in the frame update(dt) runs from the
\* state given: the timers are cleared first, so a timer at 0.5 s is a hit
HitPegs(bs, ps, us, snd, dt) ==
    LET cleared == [k \in 1..Len(ps) |-> [ps[k] EXCEPT !.hit_timer = 0]]
        r == UpdateLoop(bs, 1, dt,
                        [active_balls |-> <<>>, pegs |-> cleared,
                         user_scores |-> us, sound_events |-> snd,
                         scored |-> <<>>])
    IN  {k \in 1..Len(ps) : r.pegs[k].hit_timer = GlowDuration}

\* the peg loop of _handle_sound_events on one peg: [effect, peg]
PegEffect(peg) ==
    IF peg.hit_timer > GlowDuration - EffectWindow
    THEN [effect |-> ~peg.sound_played,
          peg |-> [peg EXCEPT !.sound_played = TRUE]]
    ELSE IF peg.hit_timer <= 0
    THEN [effect |-> FALSE, peg |-> [peg EXCEPT !.sound_played = FALSE]]
    ELSE [effect |-> FALSE, peg |-> peg]

\* one iteration of the game loop; top = <<the pegs hit, the pegs whose
\* effect was played>>
EffectsFrame(dt) ==
    /\ last = Idle
    /\ balls # <<>>
    /\ now + dt <= EffectsClockEnd
    /\ \A r \in {UpdateResult(balls, pegs, user_scores, sound_events, dt)},
          hit \in {HitPegs(balls, pegs, user_scores, sound_events, dt)} :
         /\ balls' = r.active_balls
         /\ user_scores' = r.user_scores
         /\ sound_events' = <<>>
         /\ pegs' = [k \in 1..Len(pegs) |-> PegEffect(r.pegs[k]).peg]
         /\ last' = Call("frame", "", dt, <<>>, FALSE,
                         <<hit, {k \in 1..Len(pegs) :
                                   PegEffect(r.pegs[k]).effect}>>)
    /\ screen_messages' = PruneMessages(screen_messages, now)
    /\ now' = now + dt
    /\ UNCHANGED <<events, config, next_id, threads>>

NextEffects ==
    \/ \E dt \in EffectDts : EffectsFrame(dt)
    \/ Return

SpecEffects == InitEffects /\ [][NextEffects]_vars

\* C29: in every frame the pegs whose effect is played are the pegs the
\* frame's collisions have hit: every collision triggers its effect, and no
\* effect is played without a collision.
C29_OneEffectPerHit ==
    [][(last = Idle /\ last'.op = "frame") => last'.top[1] = last'.top[2]]_vars

\* the part of C29 the code keeps: an effect is played only on a peg hit in
\* this frame or still within 0.05 s of its last hit, and then at most once
\* until the glow has run out
EffectOnlyAfterHit ==
    [][(last = Idle /\ last'.op = "frame") =>
         \A k \in last'.top[2] :
            /\ ~pegs[k].sound_played
            /\ pegs'[k].sound_played
            /\ pegs'[k].hit_timer > GlowDuration - EffectWindow]_vars

====
